---- MODULE Spec2Model ----
(***************************************************************************)
(* A model of google/generativeai/types/retriever_types.py: the Corpus /   *)
(* Document / Chunk client layer over the remote retriever service.        *)
(*                                                                         *)
(* Strings that the code takes apart are modelled by their parts: a dotted *)
(* update path is the sequence of its segments ("data.string_value" is     *)
(* <<"data", "string_value">>, so str.split(".") is the identity and       *)
(* f"{key}.{sub_key}" is concatenation), and a resource id handed to       *)
(* valid_name is the sequence of its characters.                           *)
(***************************************************************************)
EXTENDS Integers, Sequences, FiniteSets, TLC

VARIABLES
    self,   \* the entity instance the operations are called on
    last,   \* the most recent event: an operation that ran, or an awaited one that resumed
    pend    \* asynchronous operations suspended at their remote call

vars == <<self, last, pend>>

(***************************************************************************)
(* Bounds of the model.                                                    *)
(***************************************************************************)
MaxKeys == 2
MaxBatch == 2
MaxFill == 39
MaxPending == 2

None == "None"
Values == {"v1", "v2"}

(***************************************************************************)
(* Update specifications: an ordered mapping is the sequence of its        *)
(* entries; a value is a leaf or a nested mapping.                         *)
(***************************************************************************)
Leaf(v) == [kind |-> "leaf", v |-> v, m |-> <<>>]
Nested(m) == [kind |-> "map", v |-> None, m |-> m]
Entry(k, val) == [key |-> k, val |-> val]

\* new_updates[k] = v on an insertion-ordered dict: an existing key keeps its
\* place and takes the new value, a new key goes last.
DictSet(d, k, v) ==
    IF \E i \in 1..Len(d) : d[i].path = k
    THEN [i \in 1..Len(d) |-> IF d[i].path = k THEN [path |-> k, value |-> v] ELSE d[i]]
    ELSE Append(d, [path |-> k, value |-> v])

RECURSIVE flatten_update_paths(_)
RECURSIVE FlattenFrom(_, _, _)
RECURSIVE FlattenSub(_, _, _, _)

\* for sub_key, sub_value in flatten_update_paths(value).items():
\*     new_updates[f"{key}.{sub_key}"] = sub_value
FlattenSub(acc, key, sub, j) ==
    IF j > Len(sub) THEN acc
    ELSE FlattenSub(DictSet(acc, key \o sub[j].path, sub[j].value), key, sub, j + 1)

FlattenFrom(updates, i, acc) ==
    IF i > Len(updates) THEN acc
    ELSE LET e == updates[i] IN
         IF e.val.kind = "map"
         THEN FlattenFrom(updates, i + 1, FlattenSub(acc, e.key, flatten_update_paths(e.val.m), 1))
         ELSE FlattenFrom(updates, i + 1, DictSet(acc, e.key, e.val.v))

flatten_update_paths(updates) == FlattenFrom(updates, 1, <<>>)

(***************************************************************************)
(* The update mappings the operations are tried on.                        *)
(***************************************************************************)
SeqsUpTo(S, n) == UNION {[1..k -> S] : k \in 0..n}

\* a dict has no two equal keys
DistinctKeys(u) == \A i, j \in 1..Len(u) : i # j => u[i].key # u[j].key

UpdateSpecs ==
    {u \in SeqsUpTo({Entry(k, Leaf(v)) :
                        k \in {<<"display_name">>, <<"data", "string_value">>}, v \in Values}
                    \cup {Entry(<<"title">>, Leaf("v1"))}
                    \cup {Entry(<<"data">>, Nested(<<Entry(<<"string_value">>, Leaf(v))>>)) :
                             v \in Values},
                    MaxKeys) : DistinctKeys(u)}

(***************************************************************************)
(* Custom metadata.  A canonical element is a CustomMetadata dataclass; a  *)
(* wire element is a glm.CustomMetadata message, which has the fields of   *)
(* the message and none of the dataclass's methods.                        *)
(***************************************************************************)
StrV(s) == [t |-> "str", s |-> s, l |-> <<>>, n |-> 0]
ListV(l) == [t |-> "list", s |-> None, l |-> l, n |-> 0]
\* a mapping {"values": l}: the dict form of a glm.StringList
MapV(l) == [t |-> "Mapping", s |-> None, l |-> l, n |-> 0]
IntV(n) == [t |-> "int", s |-> None, l |-> <<>>, n |-> n]
FloatV(n) == [t |-> "float", s |-> None, l |-> <<>>, n |-> n]
NoneV == [t |-> "none", s |-> None, l |-> <<>>, n |-> 0]

CustomMetadata(key, value) == [rep |-> "CustomMetadata", key |-> key, kind |-> None, value |-> value]
WireMetadata(key, kind, value) == [rep |-> "glm.CustomMetadata", key |-> key, kind |-> kind, value |-> value]

\* isinstance(value, Iterable): a str and a mapping are iterables too
IsIterable(v) == v.t \in {"str", "list", "Mapping"}

CustomMetadata_to_proto_IterableFirst(cm) ==
    IF IsIterable(cm.value)
    THEN [ok |-> TRUE, proto |-> WireMetadata(cm.key, "string_list_value", ListV(cm.value.l)),
          named |-> None]
    ELSE IF cm.value.t \in {"int", "float"}
    THEN [ok |-> TRUE, proto |-> WireMetadata(cm.key, "numeric_value", FloatV(cm.value.n)),
          named |-> None]
    ELSE [ok |-> FALSE, proto |-> WireMetadata(cm.key, None, cm.value),
          named |-> [type |-> cm.value.t, value |-> cm.value]]

\* CustomMetadata._to_proto: the wire kind is chosen by the type of the value,
\* the tests taken in the order of the code
CustomMetadata_to_proto(cm) ==
    IF cm.value.t = "str"
    THEN [ok |-> TRUE, proto |-> WireMetadata(cm.key, "string_value", cm.value), named |-> None]
    ELSE IF IsIterable(cm.value)
    THEN \* a mapping fills the glm.StringList, a list is wrapped in one
         [ok |-> TRUE, proto |-> WireMetadata(cm.key, "string_list_value", ListV(cm.value.l)),
          named |-> None]
    ELSE IF cm.value.t \in {"int", "float"}
    THEN [ok |-> TRUE, proto |-> WireMetadata(cm.key, "numeric_value", FloatV(cm.value.n)),
          named |-> None]
    ELSE [ok |-> FALSE, proto |-> WireMetadata(cm.key, None, cm.value),
          named |-> [type |-> cm.value.t, value |-> cm.value]]

\* c_data = []; for cm in custom_metadata: c_data.append(cm._to_proto())
\* The loop stops at the first element that fails: a wire message has no
\* attribute _to_proto (AttributeError), a value of no supported type is
\* refused by _to_proto (ValueError).
MetadataFails(cm) == cm.rep # "CustomMetadata" \/ ~CustomMetadata_to_proto(cm).ok

ConvertMetadata(cms) ==
    IF \E i \in 1..Len(cms) : MetadataFails(cms[i])
    THEN LET i == CHOOSE k \in 1..Len(cms) :
                    MetadataFails(cms[k]) /\ \A j \in 1..(k - 1) : ~MetadataFails(cms[j])
         IN  [error |-> IF cms[i].rep # "CustomMetadata" THEN "AttributeError" ELSE "ValueError",
              c_data |-> <<>>]
    ELSE [error |-> None, c_data |-> [i \in 1..Len(cms) |-> CustomMetadata_to_proto(cms[i]).proto]]

(***************************************************************************)
(* Entities.  A field that the code never writes keeps its initial value;  *)
(* "extra" holds the attributes setattr has added to the instance.         *)
(***************************************************************************)
Corpus0 ==
    [type |-> "Corpus", name |-> <<"corpora", "c">>, display_name |-> "d0",
     create_time |-> "t0", update_time |-> "t0", extra |-> {}]

Document0 ==
    [type |-> "Document", name |-> <<"corpora", "c", "documents", "d">>, display_name |-> "d0",
     custom_metadata |-> <<>>, create_time |-> "t0", update_time |-> "t0", extra |-> {}]

ChunkData(s) == [string_value |-> s, extra |-> {}]

Chunk(name, s, cms) ==
    [type |-> "Chunk", name |-> name, data |-> ChunkData(s), custom_metadata |-> cms,
     state |-> "STATE_ACTIVE", create_time |-> "t0", update_time |-> "t0", extra |-> {}]

\* f"{parent}/{collection}/{id}": a resource name is the sequence of its segments
ChildName(parent, collection, id) == parent \o <<collection, id>>

ChunkPlain == Chunk(ChildName(Document0.name, "chunks", "c1"), "s0", <<>>)
ChunkWithMetadata ==
    Chunk(ChildName(Document0.name, "chunks", "c2"), "s0", <<CustomMetadata("k", StrV("m1"))>>)

Entities == {Corpus0, Document0, ChunkPlain, ChunkWithMetadata}

\* the attributes that hold an object with attributes of its own
ObjFields == {"data"}

HasAttr(obj, a) ==
    \/ a \in DOMAIN obj \ {"type", "extra"}
    \/ \E p \in obj.extra : p[1] = a

SetAttr_Skip(obj, a, v) == obj

SetAttr(obj, a, v) ==
    IF a \in DOMAIN obj \ {"type", "extra"}
    THEN [obj EXCEPT ![a] = v]
    ELSE [obj EXCEPT !.extra = {p \in @ : p[1] # a} \cup {<<a, v>>}]

\* _apply_update: getattr along parts[:-1], then setattr(parts[-1], value).
\* A segment that is no attribute, or whose value has no attributes to set,
\* ends in AttributeError with nothing written.
_apply_update_Top(obj, parts, value) ==
    [ok |-> TRUE, obj |-> SetAttr(obj, parts[Len(parts)], value)]

RECURSIVE _apply_update(_, _, _)
_apply_update(obj, parts, value) ==
    IF Len(parts) = 1
    THEN [ok |-> TRUE, obj |-> SetAttr(obj, parts[1], value)]
    ELSE IF ~HasAttr(obj, parts[1]) \/ parts[1] \notin ObjFields \/ parts[1] \notin DOMAIN obj
    THEN [ok |-> FALSE, obj |-> obj]
    ELSE LET r == _apply_update(obj[parts[1]], Tail(parts), value)
         IN  [ok |-> r.ok, obj |-> [obj EXCEPT ![parts[1]] = r.obj]]

\* for path, value in updates.items(): self._apply_update(path, value)
ApplyAll_FirstOnly(obj, flat, i, applied) ==
    IF i > Len(flat) THEN [ok |-> TRUE, obj |-> obj, applied |-> applied]
    ELSE LET r == _apply_update(obj, flat[i].path, flat[i].value)
         IN  [ok |-> r.ok, obj |-> r.obj, applied |-> Append(applied, flat[i])]

RECURSIVE ApplyAll(_, _, _, _)
ApplyAll(obj, flat, i, applied) ==
    IF i > Len(flat) THEN [ok |-> TRUE, obj |-> obj, applied |-> applied]
    ELSE LET r == _apply_update(obj, flat[i].path, flat[i].value)
         IN  IF r.ok THEN ApplyAll(r.obj, flat, i + 1, Append(applied, flat[i]))
             ELSE [ok |-> FALSE, obj |-> obj, applied |-> Append(applied, flat[i])]

\* field_mask = FieldMask(); for path in updates.keys(): field_mask.paths.append(path)
FieldMask_TopLevel(flat) == [i \in 1..Len(flat) |-> <<flat[i].path[1]>>]

FieldMask(flat) == [i \in 1..Len(flat) |-> flat[i].path]

\* to_dict of each entity type; Chunk.to_dict calls cm._to_dict() on every
\* element, which only the CustomMetadata dataclass has.
Corpus_to_dict(c) == [name |-> c.name, display_name |-> c.display_name]

Document_to_dict(d) ==
    [name |-> d.name, display_name |-> d.display_name, custom_metadata |-> d.custom_metadata]

Chunk_to_dict_NoData(c) ==
    LET conv == ConvertMetadata(c.custom_metadata)
    IN  [error |-> conv.error,
         dict |-> [name |-> c.name,
                   data |-> [string_value |-> ""],
                   custom_metadata |-> conv.c_data,
                   state |-> c.state]]

Chunk_to_dict(c) ==
    LET conv == ConvertMetadata(c.custom_metadata)
    IN  [error |-> conv.error,
         dict |-> [name |-> c.name,
                   data |-> [string_value |-> c.data.string_value],
                   custom_metadata |-> conv.c_data,
                   state |-> c.state]]

(***************************************************************************)
(* The record of an operation: what it was called with, the entity as it   *)
(* was when the call began, the flattened update, the mask built and the   *)
(* applicator's invocations, the remote calls it issued, and how it ended. *)
(***************************************************************************)
Idle ==
    [name |-> None, async |-> FALSE, args |-> [none |-> None], pre |-> [type |-> None],
     status |-> "idle", error |-> None, msg |-> None, detail |-> [none |-> None], ret |-> None,
     calls |-> <<>>, flat |-> <<>>, mask |-> <<>>, applied |-> <<>>, prepared |-> <<>>]

Started(name, isAsync, args) ==
    [Idle EXCEPT !.name = name, !.async = isAsync, !.args = args, !.pre = self,
                 !.status = "running"]

RemoteCall(rpc, client, request) == [rpc |-> rpc, client |-> client, request |-> request]

\* the client the remote call goes to: the one passed in, or the default of
\* the operation's kind
Client(isAsync) == IF isAsync THEN "async_client" ELSE "client"

Responses == {"ok", "error"}

\* the operation ends with an exception raised by its own code
Raise(rec, error, msg) ==
    /\ last' = [rec EXCEPT !.status = "raised", !.error = error, !.msg = msg]
    /\ pend' = pend

\* the remote call has answered: its error propagates; otherwise the operation
\* decodes the response, which raises rec.error if it is set, and returns ret
Complete(rec, resp) ==
    IF resp = "ok"
    THEN IF rec.error = None
         THEN [rec EXCEPT !.status = "returned"]
         ELSE [rec EXCEPT !.status = "raised", !.msg = "decode", !.ret = None]
    ELSE [rec EXCEPT !.status = "raised", !.error = "RemoteError", !.msg = "remote", !.ret = None]

\* client.<rpc>(request): a synchronous call answers before the operation goes
\* on; an awaited call suspends the operation until Resume
Call(rec, rpc, request, ret) ==
    LET r == [rec EXCEPT !.calls = Append(@, RemoteCall(rpc, Client(rec.async), request)),
                         !.ret = ret]
    IN  IF rec.async
        THEN /\ last' = [r EXCEPT !.status = "awaiting"]
             /\ pend' = Append(pend, [r EXCEPT !.status = "awaiting"])
        ELSE /\ \E resp \in Responses : last' = Complete(r, resp)
             /\ pend' = pend

RemoveAt(s, i) == [j \in 1..(Len(s) - 1) |-> IF j < i THEN s[j] ELSE s[j + 1]]

Resume_Refreshes ==
    \E i \in 1..Len(pend), resp \in Responses :
        /\ last' = Complete(pend[i], resp)
        /\ pend' = RemoveAt(pend, i)
        /\ self' = [self EXCEPT !.update_time = "t1"]

\* an awaited remote call answers and its operation runs to its end
Resume ==
    \E i \in 1..Len(pend), resp \in Responses :
        /\ last' = Complete(pend[i], resp)
        /\ pend' = RemoveAt(pend, i)
        /\ UNCHANGED self

(***************************************************************************)
(* update of a Corpus, a Document and a Chunk.                             *)
(***************************************************************************)
\* for item in updates: if item != <the mutable field>: raise ValueError(...)
Unsupported(flat, mutable) == \E i \in 1..Len(flat) : flat[i].path # mutable

Corpus_update(updates, isAsync) ==
    /\ self.type = "Corpus"
    /\ LET flat == flatten_update_paths(updates)
           rec == [Started("Corpus.update", isAsync, [updates |-> updates]) EXCEPT !.flat = flat]
       IN  IF Unsupported(flat, <<"display_name">>)
           THEN Raise(rec, "ValueError", "unsupported_field") /\ self' = self
           ELSE LET a == ApplyAll(self, flat, 1, <<>>)
                    rec2 == [rec EXCEPT !.mask = FieldMask(flat), !.applied = a.applied]
                IN  /\ self' = a.obj
                    /\ IF ~a.ok
                       THEN Raise(rec2, "AttributeError", "attribute")
                       ELSE Call(rec2, "update_corpus",
                                 [entity |-> Corpus_to_dict(a.obj), update_mask |-> FieldMask(flat)],
                                 "self")

Document_update(updates, isAsync) ==
    /\ self.type = "Document"
    /\ LET flat == flatten_update_paths(updates)
           rec == [Started("Document.update", isAsync, [updates |-> updates]) EXCEPT !.flat = flat]
       IN  IF Unsupported(flat, <<"display_name">>)
           THEN Raise(rec, "ValueError", "unsupported_field") /\ self' = self
           ELSE LET a == ApplyAll(self, flat, 1, <<>>)
                    rec2 == [rec EXCEPT !.mask = FieldMask(flat), !.applied = a.applied]
                IN  /\ self' = a.obj
                    /\ IF ~a.ok
                       THEN Raise(rec2, "AttributeError", "attribute")
                       ELSE Call(rec2, "update_document",
                                 [entity |-> Document_to_dict(a.obj), update_mask |-> FieldMask(flat)],
                                 "self")

\* Chunk.update first replaces self.custom_metadata by its wire form, then
\* flattens and validates, applies, and takes the snapshot with to_dict.
Chunk_update(updates, isAsync) ==
    /\ self.type = "Chunk"
    /\ LET rec0 == Started("Chunk.update", isAsync, [updates |-> updates])
           conv == ConvertMetadata(self.custom_metadata)
       IN  IF conv.error # None
           THEN Raise(rec0, conv.error, "custom_metadata") /\ self' = self
           ELSE LET s1 == [self EXCEPT !.custom_metadata = conv.c_data]
                    flat == flatten_update_paths(updates)
                    rec == [rec0 EXCEPT !.flat = flat]
                IN  IF Unsupported(flat, <<"data", "string_value">>)
                    THEN Raise(rec, "ValueError", "unsupported_field") /\ self' = s1
                    ELSE LET a == ApplyAll(s1, flat, 1, <<>>)
                             rec2 == [rec EXCEPT !.mask = FieldMask(flat), !.applied = a.applied]
                             d == Chunk_to_dict(a.obj)
                         IN  /\ self' = a.obj
                             /\ IF ~a.ok
                                THEN Raise(rec2, "AttributeError", "attribute")
                                ELSE IF d.error # None
                                THEN Raise(rec2, d.error, "to_dict")
                                ELSE Call(rec2, "update_chunk",
                                          [entity |-> d.dict, update_mask |-> FieldMask(flat)],
                                          "self")

\* an operation is called when the caller holds no result of an earlier one
Ready == last.status = "idle"

\* update and update_async
CorpusUpdate == Ready /\ \E u \in UpdateSpecs, a \in BOOLEAN : Corpus_update(u, a)
DocumentUpdate == Ready /\ \E u \in UpdateSpecs, a \in BOOLEAN : Document_update(u, a)
ChunkUpdate == Ready /\ \E u \in UpdateSpecs, a \in BOOLEAN : Chunk_update(u, a)

\* update_async called as a task while earlier update_async calls on the same
\* instance are suspended at their remote call
UpdateAsync ==
    /\ last.status \in {"idle", "awaiting"}
    /\ Len(pend) < MaxPending
    /\ \E u \in UpdateSpecs :
          \/ Corpus_update(u, TRUE)
          \/ Document_update(u, TRUE)
          \/ Chunk_update(u, TRUE)

(***************************************************************************)
(* Document.batch_update_chunks.                                           *)
(***************************************************************************)
\* what the remote service holds under the document: c1 and c2 exist, cx does not
StoredIds == {"c1", "c2"}
ChunkIds == StoredIds \cup {"cx"}

StoredChunk(doc, id) ==
    Chunk(ChildName(doc.name, "chunks", id), "s0",
          IF id = "c2" THEN <<CustomMetadata("k", StrV("m1"))>> ELSE <<>>)

\* Document.get_chunk as batch_update_chunks calls it, self.get_chunk(name=key):
\* no client is passed on, so the call goes to the default synchronous client
get_chunk(doc, id) ==
    [call |-> RemoteCall("get_chunk", "default_client", [name |-> ChildName(doc.name, "chunks", id)]),
     error |-> IF id \in StoredIds THEN None ELSE "RemoteError",
     chunk |-> StoredChunk(doc, id)]

\* the updates given for one chunk of a batch
BatchUpdates ==
    {<<e>> : e \in {Entry(<<"data", "string_value">>, Leaf("v1")), Entry(<<"title">>, Leaf("v1")),
                    Entry(<<"foo", "bar">>, Leaf("v1")),
                    Entry(<<"data">>, Nested(<<Entry(<<"string_value">>, Leaf("v2"))>>))}}
    \cup {<<Entry(<<"data", "string_value">>, Leaf("v1")), Entry(<<"title">>, Leaf("v1"))>>,
          <<Entry(<<"title">>, Leaf("v1")), Entry(<<"data", "string_value">>, Leaf("v1"))>>}

\* an element of the iterable: a (name, updates) tuple, a ready
\* glm.UpdateChunkRequest, or a value of another type
Item(kind, id, updates) == [kind |-> kind, id |-> id, updates |-> updates]

PrebuiltRequest(doc, id) ==
    [entity |-> Chunk_to_dict(StoredChunk(doc, id)).dict,
     update_mask |-> <<<<"data", "string_value">>>>]

TupleItems == {Item("tuple", id, u) : id \in ChunkIds, u \in BatchUpdates}

DistinctIds(items) == \A i, j \in 1..Len(items) : i # j => items[i].id # items[j].id

BatchInputs ==
    {[shape |-> "BatchUpdateChunksRequest", items |-> <<>>]}
    \cup {[shape |-> "mapping", items |-> m] : m \in {x \in SeqsUpTo(TupleItems, MaxBatch) : DistinctIds(x)}}
    \cup {[shape |-> "iterable", items |-> m] :
             m \in SeqsUpTo(TupleItems \cup {Item("UpdateChunkRequest", "c1", <<>>),
                                             Item("int", "c1", <<>>)}, MaxBatch)}
    \cup {[shape |-> "other", items |-> <<>>]}

\* what the loop has for one element when it is done with it
Prepared(error, msg, calls, flat, mask, applied, request) ==
    [error |-> error, msg |-> msg, calls |-> calls, flat |-> flat, mask |-> mask,
     applied |-> applied, request |-> request]

NoRequest == [entity |-> [name |-> <<>>], update_mask |-> <<>>]

\* the body of the loop for one (name, updates): fetch the chunk, replace its
\* custom_metadata by the wire form, flatten, (in the mapping branch) validate,
\* build the mask, apply, and take the snapshot; each step may raise
PrepareSnapshot(got, flat, a, d) ==
    IF d.error # None
    THEN Prepared(d.error, "to_dict", <<got.call>>, flat, FieldMask(flat), a.applied, NoRequest)
    ELSE Prepared(None, None, <<got.call>>, flat, FieldMask(flat), a.applied,
                  [entity |-> d.dict, update_mask |-> FieldMask(flat)])

PrepareApplied(got, flat, a) ==
    IF ~a.ok
    THEN Prepared("AttributeError", "attribute", <<got.call>>, flat, FieldMask(flat), a.applied, NoRequest)
    ELSE PrepareSnapshot(got, flat, a, Chunk_to_dict(a.obj))

PrepareConverted(got, conv, flat, validate) ==
    IF conv.error # None
    THEN Prepared(conv.error, "custom_metadata", <<got.call>>, <<>>, <<>>, <<>>, NoRequest)
    ELSE IF validate /\ Unsupported(flat, <<"data", "string_value">>)
    THEN Prepared("ValueError", "unsupported_field", <<got.call>>, flat, <<>>, <<>>, NoRequest)
    ELSE PrepareApplied(got, flat,
                        ApplyAll([got.chunk EXCEPT !.custom_metadata = conv.c_data], flat, 1, <<>>))

PrepareFetched(got, updates, validate) ==
    IF got.error # None
    THEN Prepared(got.error, "remote", <<got.call>>, <<>>, <<>>, <<>>, NoRequest)
    ELSE PrepareConverted(got, ConvertMetadata(got.chunk.custom_metadata),
                          flatten_update_paths(updates), validate)

PrepareChunk(doc, item, validate) == PrepareFetched(get_chunk(doc, item.id), item.updates, validate)

\* one element of the iterable branch
PrepareElement(doc, item) ==
    IF item.kind = "UpdateChunkRequest"
    THEN Prepared(None, None, <<>>, <<>>, <<>>, <<>>, PrebuiltRequest(doc, item.id))
    ELSE IF item.kind = "tuple"
    THEN PrepareChunk(doc, item, FALSE)
    ELSE Prepared("TypeError", "chunks_type", <<>>, <<>>, <<>>, <<>>, NoRequest)

\* the loop over the input stops at the first element that raises: n is the
\* last element the loop reached
LastReached_All(P) == Len(P)

LastReached(P) ==
    IF \E i \in 1..Len(P) : P[i].error # None
    THEN CHOOSE i \in 1..Len(P) : P[i].error # None /\ \A j \in 1..(i - 1) : P[j].error = None
    ELSE Len(P)

CallsOf(done) == [i \in 1..Len(done) |-> done[i].calls[1]]

Gathered(P, n) ==
    [error |-> IF n = 0 THEN None ELSE P[n].error,
     msg |-> IF n = 0 THEN None ELSE P[n].msg,
     calls |-> CallsOf(SelectSeq(SubSeq(P, 1, n), LAMBDA q : Len(q.calls) > 0)),
     prepared |-> SubSeq(P, 1, n)]

StopAtFirstError(P) == Gathered(P, LastReached(P))

PrepareAll(doc, items, mapping) ==
    StopAtFirstError([i \in 1..Len(items) |->
                        IF mapping THEN PrepareChunk(doc, items[i], TRUE)
                        ELSE PrepareElement(doc, items[i])])

Requests(prepared) == [i \in 1..Len(prepared) |-> prepared[i].request]

BatchUpdatePrepared(rec, r) ==
    IF r.error # None
    THEN Raise([rec EXCEPT !.calls = r.calls, !.prepared = r.prepared], r.error, r.msg)
    ELSE Call([rec EXCEPT !.calls = r.calls, !.prepared = r.prepared], "batch_update_chunks",
              [parent |-> rec.pre.name, requests |-> Requests(r.prepared)], "response")

Document_batch_update_chunks(chunks, isAsync) ==
    /\ self.type = "Document"
    /\ self' = self
    /\ IF chunks.shape = "BatchUpdateChunksRequest"
       THEN IF isAsync
            THEN \* response = client.batch_update_chunks(chunks) is not awaited: the
                 \* coroutine never runs, and type(response).to_dict does not exist
                 Raise(Started("Document.batch_update_chunks", isAsync, [chunks |-> chunks]),
                       "AttributeError", "coroutine")
            ELSE Call(Started("Document.batch_update_chunks", isAsync, [chunks |-> chunks]),
                      "batch_update_chunks", [parent |-> self.name, requests |-> <<>>], "response")
       ELSE IF chunks.shape = "other"
       THEN \* neither a request, a Mapping nor an Iterable: no branch is taken
            /\ last' = [Started("Document.batch_update_chunks", isAsync, [chunks |-> chunks])
                           EXCEPT !.status = "returned"]
            /\ pend' = pend
       ELSE BatchUpdatePrepared(Started("Document.batch_update_chunks", isAsync, [chunks |-> chunks]),
                                PrepareAll(self, chunks.items, chunks.shape = "mapping"))

\* batch_update_chunks and batch_update_chunks_async
DocumentBatchUpdateChunks ==
    Ready /\ \E c \in BatchInputs, a \in BOOLEAN : Document_batch_update_chunks(c, a)

(***************************************************************************)
(* valid_name.  A name is the sequence of its characters; one character    *)
(* stands for each class the pattern tells apart: a lowercase letter, a    *)
(* digit, the hyphen, an uppercase letter, and the newline.                *)
(***************************************************************************)
Chars == {"a", "0", "-", "A", "\n"}
AlnumChars == {"a", "0"}
BodyChars == {"a", "0", "-"}

\* _VALID_NAME = r"[a-z0-9]([a-z0-9-]{0,38}[a-z0-9])$" and len(name) < 40
MaxBody == 38
NameLimit == 40

\* "$" matches at the end of the string and before a newline that ends it
AtEnd(name, pos) ==
    \/ pos = Len(name) + 1
    \/ pos = Len(name) /\ name[pos] = "\n"

\* re.match(_VALID_NAME, name): a first character, k body characters, a last
\* character, and the end
Matches(name) ==
    \E k \in 0..MaxBody :
        /\ Len(name) >= k + 2
        /\ name[1] \in AlnumChars
        /\ \A i \in 2..(k + 1) : name[i] \in BodyChars
        /\ name[k + 2] \in AlnumChars
        /\ AtEnd(name, k + 3)

\* "A and B" is A when A is falsy (no match: None) and B otherwise
valid_name(name) ==
    IF ~Matches(name) THEN "None" ELSE IF Len(name) < NameLimit THEN "True" ELSE "False"

Truthy(x) == x = "True"

\* the names tried: every string of up to two characters, and the strings made
\* of a first character, a run of one repeated character, and a last character
Filled(first, mid, k, end) == <<first>> \o [i \in 1..k |-> mid] \o <<end>>

Names ==
    SeqsUpTo(Chars, 2)
    \cup {Filled(first, mid, k, end) : first \in Chars, mid \in {"a", "-", "A"}, k \in 1..MaxFill,
                                       end \in Chars}

ValidName ==
    /\ Ready
    /\ \E n \in Names :
          last' = [Started("valid_name", FALSE, [name |-> n]) EXCEPT
                      !.status = "returned", !.ret = valid_name(n)]
    /\ UNCHANGED <<self, pend>>

(***************************************************************************)
(* Corpus.create_document and Document.create_chunk.                       *)
(***************************************************************************)
\* an optional argument: None, or a value
Absent == [some |-> FALSE, s |-> <<>>]
Given(s) == [some |-> TRUE, s |-> s]

OptionalNames == {Absent} \cup {Given(n) : n \in Names}

\* custom_metadata: None or empty, CustomMetadata values, or one whose value
\* _to_proto refuses
MetadataArgs == {<<>>, <<CustomMetadata("k", StrV("m1"))>>, <<CustomMetadata("k", NoneV)>>}

\* NAME_ERROR_MSG.format(length=len(name), name=name)
NameError(name) == [length |-> Len(name), name |-> name]

NameRefused_Never(name) == FALSE

\* the branch that raises: name is not None and valid_name(name) is falsy
NameRefused(name) == name.some /\ ~Truthy(valid_name(name.s))

\* name is None: no name is set; otherwise f"{self.name}/<collection>/{name}"
CreatedName(parent, collection, name) ==
    IF name.some THEN Given(ChildName(parent, collection, name.s)) ELSE Absent

CreateConverted(rec, conv, rpc, collection, name, body) ==
    IF conv.error # None
    THEN Raise(rec, conv.error, "custom_metadata")
    ELSE IF NameRefused(name)
    THEN Raise([rec EXCEPT !.detail = NameError(name.s)], "ValueError", "NAME_ERROR_MSG")
    ELSE Call(rec, rpc,
              [parent |-> rec.pre.name, name |-> CreatedName(rec.pre.name, collection, name),
               body |-> body, custom_metadata |-> conv.c_data],
              "decoded")

Corpus_create_document(name, display_name, custom_metadata, isAsync) ==
    /\ self.type = "Corpus"
    /\ self' = self
    /\ CreateConverted(Started("Corpus.create_document", isAsync,
                               [name |-> name, display_name |-> display_name,
                                custom_metadata |-> custom_metadata]),
                       ConvertMetadata(custom_metadata), "create_document", "documents", name,
                       display_name)

\* data is a str or a ChunkData; either way the chunk carries its string
Document_create_chunk(data, name, custom_metadata, isAsync) ==
    /\ self.type = "Document"
    /\ self' = self
    /\ CreateConverted(Started("Document.create_chunk", isAsync,
                               [name |-> name, data |-> data, custom_metadata |-> custom_metadata]),
                       ConvertMetadata(custom_metadata), "create_chunk", "chunks", name,
                       data.string_value)

DataArgs == {[type |-> "str", string_value |-> "text"], [type |-> "ChunkData", string_value |-> "text"]}

CorpusCreateDocument ==
    /\ Ready
    /\ \E n \in OptionalNames, cm \in MetadataArgs, a \in BOOLEAN :
          Corpus_create_document(n, "title", cm, a)

DocumentCreateChunk ==
    /\ Ready
    /\ \E d \in DataArgs, n \in OptionalNames, cm \in MetadataArgs, a \in BOOLEAN :
          Document_create_chunk(d, n, cm, a)

(***************************************************************************)
(* Document.batch_delete_chunks.  chunks is a list or an iterator that can *)
(* be traversed once, of names or of glm.DeleteChunkRequest, or a value    *)
(* that is not iterable.                                                   *)
(***************************************************************************)
\* all(isinstance(x, glm.DeleteChunkRequest) for x in chunks) takes the
\* elements up to the first that is no request; what is traversed after it,
\* by the message's constructor or by the loop over the names, is the whole
\* of a list and the rest of an iterator
DeleteRequests(chunks) ==
    LET items == chunks.items
        taken == IF \A i \in 1..Len(items) : items[i].kind = "DeleteChunkRequest"
                 THEN Len(items)
                 ELSE CHOOSE i \in 1..Len(items) :
                         /\ items[i].kind # "DeleteChunkRequest"
                         /\ \A j \in 1..(i - 1) : items[j].kind = "DeleteChunkRequest"
        rest == IF chunks.once THEN SubSeq(items, taken + 1, Len(items)) ELSE items
    IN  [i \in 1..Len(rest) |-> [name |-> rest[i].name]]

Document_batch_delete_chunks(chunks, isAsync) ==
    /\ self.type = "Document"
    /\ self' = self
    /\ LET rec == Started("Document.batch_delete_chunks", isAsync, [chunks |-> chunks])
       IN  IF chunks.kind = "int"
           THEN Raise(rec, "TypeError", "not_iterable")
           ELSE Call(rec, "batch_delete_chunks",
                     [parent |-> self.name, requests |-> DeleteRequests(chunks)], None)

DocumentBatchDeleteChunks ==
    /\ Ready
    /\ \E once \in BOOLEAN, kind \in {"str", "DeleteChunkRequest", "int"},
          names \in SeqsUpTo(StoredIds, MaxBatch), a \in BOOLEAN :
          Document_batch_delete_chunks(
             [once |-> once, kind |-> kind,
              items |-> [i \in 1..Len(names) |-> [kind |-> kind, name |-> names[i]]]], a)

(***************************************************************************)
(* results_count of Corpus.query and Document.query.                       *)
(***************************************************************************)
CorpusMaxResults == 100
DocumentMaxResults == 100

\* results_count: None or an int
NoCount == [some |-> FALSE, n |-> 0]
Count(n) == [some |-> TRUE, n |-> n]
ResultCounts == {NoCount} \cup {Count(n) : n \in {-2, -1, 0, 1, 2, 99, 100, 101, 150}}

\* "if results_count:" holds for an int other than 0
CountTruthy(c) == c.some /\ c.n # 0

\* Corpus.query: if results_count: if results_count > 100: raise
Corpus_count_refused(c) == CountTruthy(c) /\ c.n > CorpusMaxResults

\* Document.query: if results_count: if results_count < 0 or results_count >= 100: raise
Document_count_refused(c) == CountTruthy(c) /\ (c.n < 0 \/ c.n >= DocumentMaxResults)

(***************************************************************************)
(* Document._make_chunk, _make_batch_create_chunk_request and              *)
(* batch_create_chunks.  A chunk name given by the caller is a string; ""  *)
(* is the name of a wire chunk that has none.                              *)
(***************************************************************************)
\* glm.Chunk(name=..., data={"string_value": ...}, custom_metadata=...)
WireChunk(name, s, cms) == [name |-> name, data |-> [string_value |-> s], custom_metadata |-> cms]

NoChunk == WireChunk("", "", <<>>)

\* a mapping given as a chunk: the keys it has, and their values; its data is
\* a str or a {"string_value": ...} mapping
ChunkMapping(keys, name, dataIsStr, s, cms) ==
    [keys |-> keys, name |-> name, dataIsStr |-> dataIsStr, s |-> s, custom_metadata |-> cms]

\* the shapes of ChunkOptions, and a value of another type
ChunkOption(shape, chunk, s, elems, m) ==
    [shape |-> shape, chunk |-> chunk, s |-> s, elems |-> elems, m |-> m]

OfWire(c) == ChunkOption("glm.Chunk", c, "", <<>>, ChunkMapping({}, "", FALSE, "", <<>>))
OfStr(s) == ChunkOption("str", NoChunk, s, <<>>, ChunkMapping({}, "", FALSE, "", <<>>))
OfTuple(elems) == ChunkOption("tuple", NoChunk, "", elems, ChunkMapping({}, "", FALSE, "", <<>>))
OfMapping(m) == ChunkOption("Mapping", NoChunk, "", <<>>, m)
OfInt == ChunkOption("int", NoChunk, "", <<>>, ChunkMapping({}, "", FALSE, "", <<>>))

\* glm.Chunk(chunk) of a mapping: the fields it has, the others at their defaults
ChunkOfMapping(m) ==
    WireChunk(IF "name" \in m.keys THEN m.name ELSE "",
              IF "data" \in m.keys THEN m.s ELSE "",
              IF "custom_metadata" \in m.keys THEN m.custom_metadata ELSE <<>>)

\* what _make_chunk gives: the chunk or the error raised, and the caller's
\* argument as the call leaves it
Made(error, detail, chunk, arg) == [error |-> error, detail |-> detail, chunk |-> chunk, arg |-> arg]

_make_chunk_InPlace(chunk) ==
    CASE chunk.shape = "glm.Chunk" -> Made(None, None, chunk.chunk, chunk)
      [] chunk.shape = "str" -> Made(None, None, WireChunk("", chunk.s, <<>>), chunk)
      [] chunk.shape = "tuple" ->
            IF Len(chunk.elems) = 2
            THEN Made(None, None, WireChunk(chunk.elems[1], chunk.elems[2], <<>>), chunk)
            ELSE IF Len(chunk.elems) = 3
            THEN Made(None, None, WireChunk(chunk.elems[1], chunk.elems[2], chunk.elems[3]), chunk)
            ELSE Made("ValueError", [length |-> Len(chunk.elems)], NoChunk, chunk)
      [] chunk.shape = "Mapping" ->
            IF "data" \notin chunk.m.keys
            THEN Made("KeyError", [key |-> "data"], NoChunk, chunk)
            ELSE Made(None, None, ChunkOfMapping(chunk.m), [chunk EXCEPT !.m.dataIsStr = FALSE])
      [] OTHER -> Made("TypeError", [type |-> chunk.shape], NoChunk, chunk)

_make_chunk(chunk) ==
    CASE chunk.shape = "glm.Chunk" -> Made(None, None, chunk.chunk, chunk)
      [] chunk.shape = "str" -> Made(None, None, WireChunk("", chunk.s, <<>>), chunk)
      [] chunk.shape = "tuple" ->
            IF Len(chunk.elems) = 2
            THEN Made(None, None, WireChunk(chunk.elems[1], chunk.elems[2], <<>>), chunk)
            ELSE IF Len(chunk.elems) = 3
            THEN Made(None, None, WireChunk(chunk.elems[1], chunk.elems[2], chunk.elems[3]), chunk)
            ELSE Made("ValueError", [length |-> Len(chunk.elems)], NoChunk, chunk)
      [] chunk.shape = "Mapping" ->
            \* chunk["data"]; a str is replaced in a copy, dict(chunk)
            IF "data" \notin chunk.m.keys
            THEN Made("KeyError", [key |-> "data"], NoChunk, chunk)
            ELSE Made(None, None, ChunkOfMapping(chunk.m), chunk)
      [] OTHER -> Made("TypeError", [type |-> chunk.shape], NoChunk, chunk)

\* a tuple of MaxTuple + 1 elements at most: name, data, metadata, and more
MaxTuple == 3

\* the chunks _make_chunk is tried on: wire chunks, strings, tuples of every
\* length, mappings with every subset of the keys, and an int
ChunkOptions ==
    {OfWire(WireChunk(n, t, md)) :
        n \in {"", "a", "b"}, t \in {"hello", "bye"},
        md \in {<<>>, <<WireMetadata("k", "string_value", StrV("m1"))>>}}
    \cup {OfStr(t) : t \in {"hello", "bye"}}
    \cup {OfTuple(<<>>)}
    \cup {OfTuple(<<n>>) : n \in {"", "a", "b"}}
    \cup {OfTuple(<<n, t>>) : n \in {"", "a", "b"}, t \in {"hello", "bye"}}
    \cup {OfTuple(<<n, t, md>>) :
             n \in {"", "a", "b"}, t \in {"hello", "bye"},
             md \in {<<>>, <<WireMetadata("k", "string_value", StrV("m1"))>>}}
    \cup {OfTuple(<<"a", "hello", <<>>>> \o [i \in 1..k |-> "x"]) : k \in 1..MaxTuple - 2}
    \cup {OfMapping(ChunkMapping(keys, "a", isStr, t,
                                 <<WireMetadata("k", "string_value", StrV("m1"))>>)) :
             keys \in SUBSET {"name", "data", "custom_metadata"}, isStr \in BOOLEAN,
             t \in {"hello", "bye"}}
    \cup {OfInt}

DocumentMakeChunk ==
    /\ Ready
    /\ self.type = "Document"
    /\ \E c \in ChunkOptions :
          LET made == _make_chunk(c)
              rec == Started("Document._make_chunk", FALSE, [chunk |-> c])
          IN  IF made.error # None
              THEN last' = [rec EXCEPT !.status = "raised", !.error = made.error,
                                       !.detail = made.detail, !.ret = made]
              ELSE last' = [rec EXCEPT !.status = "returned", !.ret = made]
    /\ UNCHANGED <<self, pend>>

\* str(i) of an index of the batch
Str(i) == <<"0", "1", "2", "3", "4">>[i + 1]

\* the loop over enumerate(chunks): it ends at the first chunk _make_chunk
\* refuses; i counts from 1 here, from 0 in the code
RECURSIVE CreateRequests(_, _, _, _)
CreateRequests(parent, chunks, i, requests) ==
    IF i > Len(chunks)
    THEN [error |-> None, detail |-> None, at |-> 0, requests |-> requests]
    ELSE LET made == _make_chunk(chunks[i])
         IN  IF made.error # None
             THEN [error |-> made.error, detail |-> made.detail, at |-> i, requests |-> requests]
             ELSE CreateRequests(parent, chunks, i + 1,
                    Append(requests,
                           [parent |-> parent,
                            chunk |-> [made.chunk EXCEPT
                                          !.name = ChildName(parent, "chunks",
                                                             IF @ = "" THEN Str(i - 1) ELSE @)]]))

\* the elements of the batch, in the order the loop takes them; of a mapping,
\* (key,) + value if isinstance(value, tuple) else (key, value)
BatchElements(chunks) ==
    IF chunks.shape = "Mapping"
    THEN [i \in 1..Len(chunks.items) |->
            IF chunks.items[i].value.shape = "tuple"
            THEN OfTuple(<<chunks.items[i].key>> \o chunks.items[i].value.elems)
            ELSE OfTuple(<<chunks.items[i].key, chunks.items[i].value.s>>)]
    ELSE chunks.items

_make_batch_create_chunk_request_Lenient(chunks) ==
    IF chunks.shape \in {"Mapping", "Iterable"}
    THEN [CreateRequests(self.name, BatchElements(chunks), 1, <<>>) EXCEPT !.error = None]
    ELSE [error |-> None, detail |-> None, at |-> 0, requests |-> chunks.items]

_make_batch_create_chunk_request(chunks) ==
    CASE chunks.shape = "BatchCreateChunksRequest" ->
            [error |-> None, detail |-> None, at |-> 0, requests |-> chunks.items]
      [] chunks.shape \in {"Mapping", "Iterable"} ->
            CreateRequests(self.name, BatchElements(chunks), 1, <<>>)
      [] OTHER ->
            \* enumerate() of a value that is not iterable
            [error |-> "TypeError", detail |-> [type |-> chunks.shape], at |-> 0, requests |-> <<>>]

Document_batch_create_chunks(chunks, isAsync) ==
    /\ self.type = "Document"
    /\ self' = self
    /\ LET request == _make_batch_create_chunk_request(chunks)
           rec == Started("Document.batch_create_chunks", isAsync, [chunks |-> chunks])
       IN  IF request.error # None
           THEN Raise([rec EXCEPT !.detail = request.detail, !.prepared = request.requests],
                      request.error, request.at)
           ELSE Call(rec, "batch_create_chunks",
                     [parent |-> self.name, requests |-> request.requests], "chunks")

\* the batches batch_create_chunks is tried on
BatchCreateInputs ==
    {[shape |-> "Iterable", items |-> c] :
        c \in SeqsUpTo({OfWire(WireChunk("a", "hello", <<>>)), OfStr("hello"), OfStr("bye"),
                        OfTuple(<<"b", "bye">>), OfTuple(<<"b", "bye", <<>>>>), OfTuple(<<"b">>),
                        OfTuple(<<"1", "bye">>),
                        OfTuple(<<"a", "hello", <<>>, "x">>),
                        OfMapping(ChunkMapping({"name", "data"}, "a", TRUE, "hello", <<>>)),
                        OfMapping(ChunkMapping({"name"}, "a", TRUE, "hello", <<>>)),
                        OfInt},
                       MaxBatch)}
    \cup {[shape |-> "Mapping", items |-> <<[key |-> "a", value |-> v]>>] :
             v \in {OfStr("hello"), OfTuple(<<"hello">>), OfTuple(<<"hello", <<>>>>),
                    OfTuple(<<>>), OfTuple(<<"hello", <<>>, "x">>)}}
    \cup {[shape |-> "BatchCreateChunksRequest", items |-> <<>>], [shape |-> "int", items |-> <<>>]}

DocumentBatchCreateChunks ==
    /\ Ready
    /\ \E c \in BatchCreateInputs, a \in BOOLEAN : Document_batch_create_chunks(c, a)

(***************************************************************************)
(* make_custom_metadata and CustomMetadata._to_proto.                      *)
(***************************************************************************)
\* a dict given as metadata: its "key" entry, None when it has none, and the
\* value entry it has, None when it has none
MetadataDict(key, kind, value) == [rep |-> "dict", key |-> key, kind |-> kind, value |-> value]

\* type(cm).to_dict(cm): the key and the value kind that is set; a
\* glm.StringList becomes the mapping {"values": [...]}
MetadataToDict(cm) ==
    MetadataDict(cm.key, cm.kind, IF cm.value.t = "list" THEN MapV(cm.value.l) ELSE cm.value)

\* "x or ...": x is passed over when it is None, "", 0, 0.0 or empty
Falsy(v) ==
    CASE v.t = "str" -> v.s = ""
      [] v.t = "list" -> v.l = <<>>
      [] v.t \in {"int", "float"} -> v.n = 0
      [] v.t = "none" -> TRUE
      [] OTHER -> FALSE

\* CustomMetadata._from_dict
CustomMetadata_from_dict(cm) ==
    IF cm.key = None
    THEN [error |-> "KeyError", cm |-> CustomMetadata(None, NoneV)]
    ELSE [error |-> None,
          cm |-> CustomMetadata(cm.key, IF cm.kind = None \/ Falsy(cm.value) THEN NoneV ELSE cm.value)]

make_custom_metadata_Rebuilds(cm) ==
    IF cm.rep = "CustomMetadata"
    THEN CustomMetadata_from_dict(MetadataToDict(CustomMetadata_to_proto(cm).proto))
    ELSE IF cm.rep = "glm.CustomMetadata"
    THEN CustomMetadata_from_dict(MetadataToDict(cm))
    ELSE IF cm.rep = "dict"
    THEN CustomMetadata_from_dict(cm)
    ELSE [error |-> "ValueError", cm |-> CustomMetadata(None, NoneV)]

make_custom_metadata(cm) ==
    IF cm.rep = "CustomMetadata"
    THEN [error |-> None, cm |-> cm]
    ELSE IF cm.rep = "glm.CustomMetadata"
    THEN CustomMetadata_from_dict(MetadataToDict(cm))
    ELSE IF cm.rep = "dict"
    THEN CustomMetadata_from_dict(cm)
    ELSE [error |-> "ValueError", cm |-> CustomMetadata(None, NoneV)]

\* the values and the metadata the two functions are tried on
MetadataValues ==
    {StrV("m1"), StrV(""), ListV(<<"a", "b", "c">>), ListV(<<>>), MapV(<<"a", "b", "c">>),
     IntV(0), IntV(2), FloatV(0), FloatV(2), NoneV}

ValueEntries == {"value", "string_value", "string_list_value", "numeric_value"}

MetadataInputs ==
    {CustomMetadata(k, v) : k \in {"k", "j"}, v \in MetadataValues}
    \cup {WireMetadata(k, "string_value", StrV(x)) : k \in {"k", "j"}, x \in {"m1", ""}}
    \cup {WireMetadata(k, "string_list_value", ListV(x)) : k \in {"k", "j"}, x \in {<<"a", "b", "c">>, <<>>}}
    \cup {WireMetadata(k, "numeric_value", FloatV(x)) : k \in {"k", "j"}, x \in {0, 2}}
    \cup {MetadataDict(k, e, v) : k \in {"k", "j", None}, e \in ValueEntries,
                                v \in MetadataValues \ {MapV(<<"a", "b", "c">>)}}
    \cup {MetadataDict(k, None, NoneV) : k \in {"k", None}}
    \cup {[rep |-> "str", key |-> None, kind |-> None, value |-> StrV("m1")]}

MakeCustomMetadata ==
    /\ Ready
    /\ \E cm \in MetadataInputs :
          LET made == make_custom_metadata(cm)
              rec == Started("make_custom_metadata", FALSE, [cm |-> cm])
          IN  IF made.error # None
              THEN last' = [rec EXCEPT !.status = "raised", !.error = made.error]
              ELSE last' = [rec EXCEPT !.status = "returned", !.ret = made.cm]
    /\ UNCHANGED <<self, pend>>

CustomMetadataToProto ==
    /\ Ready
    /\ \E k \in {"k", "j"}, v \in MetadataValues :
          LET made == CustomMetadata_to_proto(CustomMetadata(k, v))
              rec == Started("CustomMetadata._to_proto", FALSE, [cm |-> CustomMetadata(k, v)])
          IN  IF ~made.ok
              THEN last' = [rec EXCEPT !.status = "raised", !.error = "ValueError",
                                       !.detail = made.named]
              ELSE last' = [rec EXCEPT !.status = "returned", !.ret = made.proto]
    /\ UNCHANGED <<self, pend>>

(***************************************************************************)
(* to_operator and its table _OPERATOR.                                    *)
(***************************************************************************)
Operators ==
    {"OPERATOR_UNSPECIFIED", "LESS", "LESS_EQUAL", "EQUAL", "GREATER_EQUAL", "NOT_EQUAL",
     "INCLUDES", "EXCLUDES"}

\* a member of the enumeration Operator, as a key
EnumV(o) == [t |-> "Operator", s |-> o, l |-> <<>>, n |-> 0]

KeyValue(key, value) == [key |-> key, value |-> value]

\* the items of the dict display, in the order they are written
_OPERATOR ==
    <<
      KeyValue(EnumV("OPERATOR_UNSPECIFIED"), "OPERATOR_UNSPECIFIED"),
      KeyValue(IntV(0), "OPERATOR_UNSPECIFIED"),
      KeyValue(StrV("operator_unspecified"), "OPERATOR_UNSPECIFIED"),
      KeyValue(StrV("unspecified"), "OPERATOR_UNSPECIFIED"), KeyValue(EnumV("LESS"), "LESS"),
      KeyValue(IntV(1), "LESS"), KeyValue(StrV("operator_less"), "LESS"),
      KeyValue(StrV("less"), "LESS"), KeyValue(StrV("<"), "LESS"),
      KeyValue(EnumV("LESS_EQUAL"), "LESS_EQUAL"), KeyValue(IntV(2), "LESS_EQUAL"),
      KeyValue(StrV("operator_less_equal"), "LESS_EQUAL"),
      KeyValue(StrV("less_equal"), "LESS_EQUAL"), KeyValue(StrV("<="), "LESS_EQUAL"),
      KeyValue(EnumV("EQUAL"), "EQUAL"), KeyValue(IntV(3), "EQUAL"),
      KeyValue(StrV("operator_equal"), "EQUAL"), KeyValue(StrV("equal"), "EQUAL"),
      KeyValue(StrV("=="), "EQUAL"), KeyValue(EnumV("GREATER_EQUAL"), "GREATER_EQUAL"),
      KeyValue(IntV(4), "GREATER_EQUAL"),
      KeyValue(StrV("operator_greater_equal"), "GREATER_EQUAL"),
      KeyValue(StrV("greater_equal"), "GREATER_EQUAL"), KeyValue(EnumV("NOT_EQUAL"), "NOT_EQUAL"),
      KeyValue(IntV(5), "NOT_EQUAL"), KeyValue(StrV("operator_not_equal"), "NOT_EQUAL"),
      KeyValue(StrV("not_equal"), "NOT_EQUAL"), KeyValue(StrV("!="), "NOT_EQUAL"),
      KeyValue(EnumV("INCLUDES"), "INCLUDES"), KeyValue(IntV(6), "INCLUDES"),
      KeyValue(StrV("operator_includes"), "INCLUDES"), KeyValue(StrV("includes"), "INCLUDES"),
      KeyValue(EnumV("EXCLUDES"), "EXCLUDES"), KeyValue(IntV(6), "EXCLUDES"),
      KeyValue(StrV("operator_excludes"), "EXCLUDES"), KeyValue(StrV("excludes"), "EXCLUDES"),
      KeyValue(StrV("not in"), "EXCLUDES")
    >>

\* The numbers of the members of Operator are given by the package that
\* defines it, not by this file.  A member is equal, as a key, to the int of
\* its number: either no member has the number of an int key of the table, or
\* the members are numbered as the package's enumeration is (0, 1, 2, 3, 4,
\* 6, 7, 8, the number 5 being a member the table does not name).
Numberings ==
    {[o \in Operators |-> -1],
     [o \in Operators |->
        CASE o = "OPERATOR_UNSPECIFIED" -> 0 [] o = "LESS" -> 1 [] o = "LESS_EQUAL" -> 2
          [] o = "EQUAL" -> 3 [] o = "GREATER_EQUAL" -> 4 [] o = "NOT_EQUAL" -> 6
          [] o = "INCLUDES" -> 7 [] o = "EXCLUDES" -> 8]}

\* two keys are one key of the dict
SameKey(a, b, number) ==
    \/ a = b
    \/ a.t = "Operator" /\ b.t = "int" /\ number[a.s] = b.n
    \/ a.t = "int" /\ b.t = "Operator" /\ number[b.s] = a.n

\* of the items written with one key, the dict holds the value of the last
Stored_First(written) == CHOOSE i \in written : \A j \in written : i <= j

Stored(written) == CHOOSE i \in written : \A j \in written : j <= i

\* x.lower() of the strings to_operator and to_state are tried on
Lower(x) ==
    CASE x = "INCLUDES" -> "includes" [] x = "Excludes" -> "excludes" [] x = "NOT IN" -> "not in"
      [] x = "Unspecified" -> "unspecified" [] x = "Operator_Less" -> "operator_less"
      [] x = "GREATER_EQUAL" -> "greater_equal" [] x = "STATE_ACTIVE" -> "state_active"
      [] x = "Active" -> "active" [] x = "STATE_UNSPECIFIED" -> "state_unspecified"
      [] OTHER -> x

\* to_operator: _OPERATOR[x], with x in lower case when it is a str
to_operator(x, number) ==
    LET key == IF x.t = "str" THEN StrV(Lower(x.s)) ELSE x
        written == {i \in 1..Len(_OPERATOR) : SameKey(_OPERATOR[i].key, key, number)}
    IN  IF written = {}
        THEN [error |-> "KeyError", operator |-> None]
        ELSE [error |-> None, operator |-> _OPERATOR[Stored(written)].value]

\* the greatest int to_operator is tried on
MaxCode == 8

OperatorInputs ==
    {EnumV(o) : o \in Operators} \cup {IntV(n) : n \in -1..MaxCode}
    \cup {StrV(x) : x \in
         {"!=", "<", "<=", "==", "equal", "excludes", "greater_equal",
          "includes", "less", "less_equal", "not in", "not_equal",
          "operator_equal", "operator_excludes", "operator_greater_equal",
          "operator_includes", "operator_less", "operator_less_equal",
          "operator_not_equal", "operator_unspecified", "unspecified"}}
    \cup {StrV(x) : x \in {">=", ">", "in", "INCLUDES", "Excludes", "NOT IN", "Unspecified",
                           "Operator_Less", "GREATER_EQUAL"}}

ToOperator ==
    /\ Ready
    /\ \E x \in OperatorInputs, number \in Numberings :
          LET found == to_operator(x, number)
              rec == Started("to_operator", FALSE, [x |-> x, number |-> number])
          IN  IF found.error # None
              THEN last' = [rec EXCEPT !.status = "raised", !.error = found.error]
              ELSE last' = [rec EXCEPT !.status = "returned", !.ret = found.operator]
    /\ UNCHANGED <<self, pend>>

(***************************************************************************)
(* MetadataFilter._to_proto.  The keyword arguments of a wire condition    *)
(* are the items of the dict kwargs, in the dict's order.                  *)
(***************************************************************************)
\* the loop over self.conditions; kwargs is the one dict made before the loop
RECURSIVE Conditions(_, _, _, _)
Conditions(conds, i, kwargs, out) ==
    IF i > Len(conds) THEN [error |-> None, conditions |-> out]
    ELSE IF conds[i].value.t \notin {"str", "int", "float"}
    THEN [error |-> "ValueError", conditions |-> out]
    ELSE LET valued == IF conds[i].value.t = "str"
                       THEN DictSet(kwargs, "string_value", conds[i].value)
                       ELSE DictSet(kwargs, "numeric_value", FloatV(conds[i].value.n))
             args == DictSet(valued, "operation", EnumV(conds[i].operation))
         IN  Conditions(conds, i + 1, args, Append(out, args))

MetadataFilter_to_proto(f) ==
    LET r == Conditions(f.conditions, 1, <<>>, <<>>)
    IN  [error |-> r.error, proto |-> [key |-> f.key, conditions |-> r.conditions]]

MetadataFilterToProto ==
    /\ Ready
    /\ \E conds \in SeqsUpTo({[value |-> v, operation |-> o] :
                                v \in {StrV("m1"), StrV("m2"), IntV(2), FloatV(3), NoneV},
                                o \in {"EQUAL", "LESS"}}, MaxBatch) :
          LET f == [key |-> "k", conditions |-> conds]
              made == MetadataFilter_to_proto(f)
              rec == Started("MetadataFilter._to_proto", FALSE, [filter |-> f])
          IN  IF made.error # None
              THEN last' = [rec EXCEPT !.status = "raised", !.error = made.error]
              ELSE last' = [rec EXCEPT !.status = "returned", !.ret = made.proto]
    /\ UNCHANGED <<self, pend>>

(***************************************************************************)
(* The constructor of Chunk.                                               *)
(***************************************************************************)
\* to_state: _STATE[x], with x in lower case when it is a str
to_state(x) ==
    LET key == IF x.t = "str" THEN StrV(Lower(x.s)) ELSE x
    IN  CASE key \in {EnumV("STATE_UNSPECIFIED"), IntV(0), StrV("state_unspecifed"),
                      StrV("unspecified")} ->
                [error |-> None, state |-> "STATE_UNSPECIFIED"]
          [] key \in {EnumV("STATE_PENDING_PROCESSING"), IntV(1), StrV("pending_processing"),
                      StrV("pending")} ->
                [error |-> None, state |-> "STATE_PENDING_PROCESSING"]
          [] key \in {EnumV("STATE_ACTIVE"), IntV(2), StrV("state_active"), StrV("active")} ->
                [error |-> None, state |-> "STATE_ACTIVE"]
          [] key \in {EnumV("STATE_FAILED"), IntV(10), StrV("state_failed"), StrV("failed")} ->
                [error |-> None, state |-> "STATE_FAILED"]
          [] OTHER -> [error |-> "KeyError", state |-> None]

\* a time argument: None, a datetime, or a str that
\* strptime(.., "%Y-%m-%dT%H:%M:%S.%fZ") parses to a datetime or refuses
DecodeTime(x) ==
    CASE x.t = "none" -> [error |-> None, time |-> None]
      [] x.t = "datetime" -> [error |-> None, time |-> x.s]
      [] x.s = "2024-01-01T00:00:00.000000Z" -> [error |-> None, time |-> "t0"]
      [] x.s = "2024-01-02T00:00:00.500000Z" -> [error |-> None, time |-> "t1"]
      [] OTHER -> [error |-> "ValueError", time |-> None]

\* Chunk.__init__: the exception it ends with, or the chunk and the attributes
\* no statement has assigned
Chunk_init(name, data, custom_metadata, state, create_time, update_time) ==
    IF data.t = "dict" /\ ~data.has
    THEN [error |-> "KeyError", chunk |-> ChunkPlain, unset |-> {}]
    ELSE IF \E i \in 1..Len(custom_metadata.l) : make_custom_metadata(custom_metadata.l[i]).error # None
    THEN [error |-> make_custom_metadata(
                       custom_metadata.l[CHOOSE i \in 1..Len(custom_metadata.l) :
                          /\ make_custom_metadata(custom_metadata.l[i]).error # None
                          /\ \A j \in 1..(i - 1) :
                                make_custom_metadata(custom_metadata.l[j]).error = None]).error,
          chunk |-> ChunkPlain, unset |-> {}]
    ELSE IF to_state(state).error # None
    THEN [error |-> "KeyError", chunk |-> ChunkPlain, unset |-> {}]
    ELSE IF DecodeTime(create_time).error # None \/ DecodeTime(update_time).error # None
    THEN [error |-> "ValueError", chunk |-> ChunkPlain, unset |-> {}]
    ELSE [error |-> None,
          chunk |-> [type |-> "Chunk", name |-> name,
                     data |-> ChunkData(IF data.t \in {"str", "dict"} THEN data.s ELSE None),
                     custom_metadata |-> [i \in 1..Len(custom_metadata.l) |->
                                             make_custom_metadata(custom_metadata.l[i]).cm],
                     state |-> to_state(state).state,
                     create_time |-> DecodeTime(create_time).time,
                     update_time |-> DecodeTime(update_time).time,
                     extra |-> {}],
          \* neither "if isinstance(data, str)" nor "elif isinstance(data, dict)"
          unset |-> IF data.t \in {"str", "dict"} THEN {} ELSE {"data"}]

(***************************************************************************)
(* Corpus.query and Document.query: the request and the decoding of the    *)
(* response.                                                               *)
(***************************************************************************)
Queries == {"q1", "q2"}

\* the dict of a chunk of a response, type(response).to_dict(response): the
\* state is its number, the times are strings
ResponseChunk(name, state, create_time) ==
    [name |-> name, data |-> [t |-> "dict", has |-> TRUE, s |-> "hello"],
     custom_metadata |-> [some |-> TRUE, l |-> <<MetadataDict("k", "string_value", StrV("m1"))>>],
     state |-> IntV(state),
     create_time |-> [t |-> "str", s |-> create_time],
     update_time |-> [t |-> "str", s |-> "2024-01-02T00:00:00.500000Z"]]

\* the answers of the remote service to a query: relevant_chunks
QueryResponses ==
    SeqsUpTo({[chunk_relevance_score |-> 5,
               chunk |-> ResponseChunk("a", 2, "2024-01-01T00:00:00.000000Z")],
              [chunk_relevance_score |-> 9,
               chunk |-> ResponseChunk("b", 1, "2024-01-01T00:00:00.000000Z")],
              [chunk_relevance_score |-> 7,
               chunk |-> ResponseChunk("c", 2, "2024-01-01T00:00:00Z")]},
             MaxBatch)

\* Chunk(**c["chunk"])
ChunkOfDict(c) ==
    Chunk_init(c.name, c.data, c.custom_metadata, c.state, c.create_time, c.update_time)

RelevantChunks_Reversed(response) ==
    [error |-> IF \E i \in 1..Len(response) : ChunkOfDict(response[i].chunk).error # None
               THEN "ValueError" ELSE None,
     chunks |-> [i \in 1..Len(response) |->
                   [chunk_relevance_score |-> response[Len(response) + 1 - i].chunk_relevance_score,
                    chunk |-> ChunkOfDict(response[Len(response) + 1 - i].chunk).chunk]]]

\* for c in response["relevant_chunks"]: relevant_chunks.append(RelevantChunk(...));
\* the loop ends with the exception of the first chunk the constructor refuses
RelevantChunks(response) ==
    [error |-> IF \E i \in 1..Len(response) : ChunkOfDict(response[i].chunk).error # None
               THEN ChunkOfDict(response[CHOOSE i \in 1..Len(response) :
                                   /\ ChunkOfDict(response[i].chunk).error # None
                                   /\ \A j \in 1..(i - 1) :
                                         ChunkOfDict(response[j].chunk).error = None].chunk).error
               ELSE None,
     chunks |-> [i \in 1..Len(response) |->
                   [chunk_relevance_score |-> response[i].chunk_relevance_score,
                    chunk |-> ChunkOfDict(response[i].chunk).chunk]]]

Query(rec, refused, rpc, response) ==
    IF refused
    THEN Raise(rec, "ValueError", "results_count_bounds")
    ELSE Call([rec EXCEPT !.detail = [response |-> response],
                          !.error = RelevantChunks(response).error],
              rpc,
              [name |-> rec.pre.name, query |-> rec.args.query, metadata_filters |-> <<>>,
               results_count |-> rec.args.results_count],
              RelevantChunks(response).chunks)

Corpus_query(query, results_count, response, isAsync) ==
    /\ self.type = "Corpus"
    /\ self' = self
    /\ Query(Started("Corpus.query", isAsync, [query |-> query, results_count |-> results_count]),
             Corpus_count_refused(results_count), "query_corpus", response)

Document_query(query, results_count, response, isAsync) ==
    /\ self.type = "Document"
    /\ self' = self
    /\ Query(Started("Document.query", isAsync, [query |-> query, results_count |-> results_count]),
             Document_count_refused(results_count), "query_document", response)

CorpusQuery ==
    /\ Ready
    /\ \E q \in Queries, c \in ResultCounts, r \in QueryResponses, a \in BOOLEAN :
          Corpus_query(q, c, r, a)

DocumentQuery ==
    /\ Ready
    /\ \E q \in Queries, c \in ResultCounts, r \in QueryResponses, a \in BOOLEAN :
          Document_query(q, c, r, a)

(***************************************************************************)
(* Corpus.list_documents and Document.list_chunks: generator functions.    *)
(* The record of the generator has the status "created" until its first    *)
(* element is requested, and "yielded" while it is suspended at its yield. *)
(***************************************************************************)
\* decode_document(doc), decode_chunk(chunk) of the remote item of an id
DecodeItem(parent, id) ==
    IF parent.type = "Corpus"
    THEN [Document0 EXCEPT !.name = ChildName(parent.name, "documents", id)]
    ELSE Chunk_init(ChildName(parent.name, "chunks", id), [t |-> "dict", has |-> TRUE, s |-> "hello"],
                    [some |-> TRUE, l |-> <<>>], IntV(2), [t |-> "datetime", s |-> "t0"],
                    [t |-> "datetime", s |-> "t0"]).chunk

List_Eager ==
    /\ Ready
    /\ self.type \in {"Corpus", "Document"}
    /\ \E page_size \in {NoCount, Count(2)} :
          last' = [Started(IF self.type = "Corpus" THEN "Corpus.list_documents"
                           ELSE "Document.list_chunks",
                           FALSE, [page_size |-> page_size])
                      EXCEPT !.status = "created",
                             !.calls = <<RemoteCall("list", "client", [parent |-> self.name])>>]
    /\ UNCHANGED <<self, pend>>

\* the call of the generator function: no statement of its body runs
List ==
    /\ Ready
    /\ self.type \in {"Corpus", "Document"}
    /\ \E page_size \in {NoCount, Count(2)} :
          last' = [Started(IF self.type = "Corpus" THEN "Corpus.list_documents"
                           ELSE "Document.list_chunks",
                           FALSE, [page_size |-> page_size])
                      EXCEPT !.status = "created"]
    /\ UNCHANGED <<self, pend>>

\* next(generator): the first runs the body up to its first yield, calling
\* client.list_documents or client.list_chunks; a later one resumes the loop
ListNext ==
    /\ last.name \in {"Corpus.list_documents", "Document.list_chunks"}
    /\ \/ /\ last.status = "created"
          /\ \E resp \in Responses, items \in SeqsUpTo({"a", "b"}, MaxBatch) :
                last' = [last EXCEPT
                           !.calls = <<RemoteCall(IF last.pre.type = "Corpus" THEN "list_documents"
                                                  ELSE "list_chunks",
                                                  "client",
                                                  [parent |-> last.pre.name,
                                                   page_size |-> last.args.page_size])>>,
                           !.detail = [response |-> IF resp = "ok" THEN items ELSE <<>>],
                           !.status = IF resp = "error" THEN "raised"
                                      ELSE IF items = <<>> THEN "returned" ELSE "yielded",
                           !.error = IF resp = "error" THEN "RemoteError" ELSE None,
                           !.ret = IF resp = "ok" /\ items # <<>>
                                   THEN <<DecodeItem(last.pre, items[1])>> ELSE <<>>]
       \/ /\ last.status = "yielded"
          /\ last' = IF Len(last.ret) < Len(last.detail.response)
                     THEN [last EXCEPT !.ret = Append(@, DecodeItem(last.pre,
                                                   last.detail.response[Len(last.ret) + 1]))]
                     ELSE [last EXCEPT !.status = "returned"]
    /\ UNCHANGED <<self, pend>>

\* Chunk(...) as a caller may write it
ChunkInit ==
    /\ Ready
    /\ \E data \in {[t |-> "str", has |-> FALSE, s |-> "hello"],
                    [t |-> "dict", has |-> TRUE, s |-> "hello"],
                    [t |-> "dict", has |-> FALSE, s |-> "hello"],
                    [t |-> "ChunkData", has |-> TRUE, s |-> "hello"]},
          custom_metadata \in
                   {[some |-> FALSE, l |-> <<>>], [some |-> TRUE, l |-> <<>>],
                    [some |-> TRUE, l |-> <<CustomMetadata("k", StrV("m1"))>>],
                    [some |-> TRUE, l |-> <<WireMetadata("k", "string_value", StrV("m1")),
                                            MetadataDict("j", "value", ListV(<<"a", "b", "c">>))>>],
                    [some |-> TRUE, l |-> <<MetadataDict("k", "numeric_value", IntV(0))>>],
                    [some |-> TRUE, l |-> <<MetadataDict(None, "value", StrV("m1"))>>],
                    [some |-> TRUE, l |-> <<[rep |-> "str", key |-> None, kind |-> None,
                                             value |-> StrV("m1")]>>]},
          state \in {EnumV("STATE_ACTIVE"), IntV(2), IntV(10), IntV(3), StrV("active"),
                     StrV("Active"), StrV("STATE_ACTIVE"), StrV("STATE_UNSPECIFIED"), NoneV},
          create_time \in {[t |-> "none", s |-> None], [t |-> "datetime", s |-> "t0"],
                           [t |-> "str", s |-> "2024-01-01T00:00:00.000000Z"],
                           [t |-> "str", s |-> "2024-01-01T00:00:00Z"]},
          update_time \in {[t |-> "none", s |-> None],
                           [t |-> "str", s |-> "2024-01-02T00:00:00.500000Z"]} :
          LET made == Chunk_init("a", data, custom_metadata, state, create_time, update_time)
              rec == Started("Chunk.__init__", FALSE,
                             [data |-> data, custom_metadata |-> custom_metadata, state |-> state,
                              create_time |-> create_time, update_time |-> update_time])
          IN  IF made.error # None
              THEN last' = [rec EXCEPT !.status = "raised", !.error = made.error]
              ELSE last' = [rec EXCEPT !.status = "returned", !.ret = made]
    /\ UNCHANGED <<self, pend>>

\* the applicator's loop of update on its own: self._apply_update(path, value)
\* for each path of a flattened update, in order, with no validation before it
ApplyUpdates ==
    /\ Ready
    /\ \E flat \in SeqsUpTo({[path |-> p, value |-> v] :
                               p \in {<<"display_name">>, <<"title">>, <<"data", "string_value">>,
                                      <<"foo", "bar">>},
                               v \in Values}, MaxKeys) \ {<<>>} :
          LET a == ApplyAll(self, flat, 1, <<>>)
              rec == [Started("_apply_update", FALSE, [updates |-> flat])
                         EXCEPT !.flat = flat, !.applied = a.applied]
          IN  /\ self' = a.obj
              /\ IF a.ok
                 THEN last' = [rec EXCEPT !.status = "returned"] /\ pend' = pend
                 ELSE Raise(rec, "AttributeError", "attribute")

\* the caller drops the result of the last operation before it calls again
Forget ==
    /\ last.status \in {"returned", "raised"}
    /\ last' = Idle
    /\ UNCHANGED <<self, pend>>

Init ==
    /\ self \in Entities
    /\ last = Idle
    /\ pend = <<>>

Next ==
    \/ CorpusUpdate
    \/ DocumentUpdate
    \/ ChunkUpdate
    \/ DocumentBatchUpdateChunks
    \/ Resume
    \/ Forget

Spec == Init /\ [][Next]_vars

\* the operations that take a resource id or the names of chunks
NextName ==
    \/ ValidName
    \/ CorpusCreateDocument
    \/ DocumentCreateChunk
    \/ DocumentBatchDeleteChunks
    \/ Resume
    \/ Forget

SpecName == Init /\ [][NextName]_vars

\* the queries and the listings
NextQuery ==
    \/ CorpusQuery
    \/ DocumentQuery
    \/ List
    \/ ListNext
    \/ Resume
    \/ Forget

SpecQuery == Init /\ [][NextQuery]_vars

\* the normalisers of inputs: chunks, metadata, operators, filters, the
\* constructor of Chunk, and the applicator of update paths
NextInput ==
    \/ DocumentMakeChunk
    \/ DocumentBatchCreateChunks
    \/ MakeCustomMetadata
    \/ CustomMetadataToProto
    \/ ToOperator
    \/ ChunkInit
    \/ ApplyUpdates
    \/ MetadataFilterToProto
    \/ Resume
    \/ Forget

SpecInput == Init /\ [][NextInput]_vars

\* update_async calls that interleave on one instance
NextRace ==
    \/ UpdateAsync
    \/ Resume
    \/ Forget

SpecRace == Init /\ [][NextRace]_vars

(***************************************************************************)
(* Properties.                                                             *)
(***************************************************************************)
UpdateOperations == {"Corpus.update", "Document.update", "Chunk.update"}

\* the operation of the last event has run up to its remote call or to its end
Ran(names) == last.name \in names /\ last.status # "idle"

Over(names) == last.name \in names /\ last.status \in {"returned", "raised"}

\* the sole mutable field of an entity type, as a path
SoleMutablePath(type) == IF type = "Chunk" THEN <<"data", "string_value">> ELSE <<"display_name">>

RejectedAsUnsupported ==
    /\ last.status = "raised"
    /\ last.error = "ValueError"
    /\ last.msg = "unsupported_field"
    /\ last.calls = <<>>

\* C1: an update (sync or async) of a Corpus, Document or Chunk whose flattened
\* paths include one other than the type's sole mutable field ends with the
\* unsupported-field ValueError, and no remote call has been issued.
C1_UnsupportedPathRejected ==
    (/\ Ran(UpdateOperations)
     /\ Unsupported(flatten_update_paths(last.args.updates), SoleMutablePath(last.pre.type)))
    => RejectedAsUnsupported

\* C2: a Corpus.update or Document.update with {'display_name': v} that
\* returns has issued exactly one update call, whose mask is ['display_name']
\* and whose snapshot carries display_name = v; the entity's display_name is v
\* and the value returned is the instance itself.
C2_DisplayNameUpdated ==
    \A v \in Values :
        (/\ Over({"Corpus.update", "Document.update"})
         /\ last.status = "returned"
         /\ last.args.updates = <<Entry(<<"display_name">>, Leaf(v))>>)
        => /\ Len(last.calls) = 1
           /\ last.calls[1].rpc = (IF last.pre.type = "Corpus" THEN "update_corpus" ELSE "update_document")
           /\ last.calls[1].request.update_mask = <<<<"display_name">>>>
           /\ last.calls[1].request.entity.display_name = v
           /\ last.calls[1].request.entity.name = last.pre.name
           /\ self.display_name = v
           /\ last.ret = "self"

C2_Witness ==
    /\ Over({"Corpus.update"})
    /\ last.status = "returned"
    /\ last.async
    /\ last.args.updates = <<Entry(<<"display_name">>, Leaf("v2"))>>
    /\ self.display_name = "v2"

\* the mask has one path per entry of the flattened update, in its order, and
\* no path twice; the applicator was invoked once per entry, in that order
MaskAndApplicationsFollow(flat, mask, applied) ==
    /\ Len(mask) = Len(flat)
    /\ \A i \in 1..Len(flat) : mask[i] = flat[i].path
    /\ \A i, j \in 1..Len(mask) : i # j => mask[i] # mask[j]
    /\ Len(applied) = Len(flat)
    /\ \A i \in 1..Len(flat) : applied[i] = flat[i]

\* C3: in every update request sent (by Corpus.update, Document.update,
\* Chunk.update, and each request Document.batch_update_chunks builds for a
\* chunk) the field mask holds exactly one path per key of the flattened
\* update, in its iteration order, none repeated and none absent, and the
\* applicator has been invoked exactly once per flattened entry in that order.
C3_MaskFollowsFlattenedUpdate ==
    /\ (Ran(UpdateOperations) /\ last.calls # <<>>)
       => MaskAndApplicationsFollow(flatten_update_paths(last.args.updates),
                                    last.calls[1].request.update_mask, last.applied)
    /\ (Ran({"Document.batch_update_chunks"}) /\ last.args.chunks.shape \in {"mapping", "iterable"})
       => \A i \in 1..Len(last.prepared) :
             (last.args.chunks.items[i].kind = "tuple" /\ last.prepared[i].error = None)
             => MaskAndApplicationsFollow(flatten_update_paths(last.args.chunks.items[i].updates),
                                          last.prepared[i].request.update_mask,
                                          last.prepared[i].applied)

C3_Witness ==
    /\ Over({"Document.batch_update_chunks"})
    /\ last.status = "returned"
    /\ last.args.chunks.shape = "iterable"
    /\ Len(last.prepared) = 2
    /\ Len(last.prepared[2].request.update_mask) = 2
    /\ last.prepared[2].request.update_mask[1] = <<"title">>

\* C4: Document.batch_update_chunks, given a mapping or an iterable of (name,
\* updates) tuples in which some update flattens to a path other than
\* 'data.string_value', ends with the unsupported-field error and has issued
\* no remote call.
C4_BatchRejectsUnsupportedPath ==
    (/\ Ran({"Document.batch_update_chunks"})
     /\ last.args.chunks.shape \in {"mapping", "iterable"}
     /\ \A i \in 1..Len(last.args.chunks.items) : last.args.chunks.items[i].kind = "tuple"
     /\ \E i \in 1..Len(last.args.chunks.items) :
           Unsupported(flatten_update_paths(last.args.chunks.items[i].updates),
                       <<"data", "string_value">>))
    => RejectedAsUnsupported

\* the entity as an update that passed validation leaves it: the value written
\* at the mutable field, every other field as it was
Written(pre, flat) ==
    IF flat = <<>> THEN pre
    ELSE IF pre.type = "Chunk" THEN [pre EXCEPT !.data.string_value = flat[Len(flat)].value]
    ELSE [pre EXCEPT !.display_name = flat[Len(flat)].value]

RemoteUpdateRaised ==
    /\ Over(UpdateOperations)
    /\ last.status = "raised"
    /\ last.calls # <<>>

\* C9 as stated: if the remote update call raises, the error reaches the
\* caller unchanged and every field of the entity has its pre-call value.
C9_UnchangedWhenRemoteRaises ==
    RemoteUpdateRaised => (last.error = "RemoteError" /\ self = last.pre)

\* C9 as amended: if the remote update call raises, the error reaches the
\* caller unchanged; the entity keeps what the update wrote before the call:
\* the updated field holds the requested value and every other field has its
\* pre-call value.
C9_WrittenWhenRemoteRaises ==
    RemoteUpdateRaised
    => /\ last.error = "RemoteError"
       /\ self = Written(last.pre, flatten_update_paths(last.args.updates))

C9_Witness ==
    /\ RemoteUpdateRaised
    /\ last.pre.type = "Chunk"
    /\ last.pre.data.string_value = "s0"
    /\ self.data.string_value = "v2"

BatchCalls(calls) == {i \in 1..Len(calls) : calls[i].rpc = "batch_update_chunks"}

\* the name a request of the batch is for
RequestedName(doc, item) == ChildName(doc.name, "chunks", item.id)

OnlyOf(name, chars) == \A i \in 1..Len(name) : name[i] \in chars

\* C5: valid_name returns a truthy result for every string of length 1 to 39
\* made only of lowercase letters, digits and hyphens that is not made only of
\* hyphens, and a falsy result for every string of length 40 or more and for
\* every string that contains any other character.
C5_AcceptsSlugsOnly ==
    Over({"valid_name"})
    => LET name == last.args.name
       IN  /\ (Len(name) \in 1..39 /\ OnlyOf(name, {"a", "0", "-"}) /\ ~OnlyOf(name, {"-"}))
              => Truthy(last.ret)
           /\ (Len(name) >= 40 \/ ~OnlyOf(name, {"a", "0", "-"}))
              => ~Truthy(last.ret)

CreateOperations == {"Corpus.create_document", "Document.create_chunk"}

QueryOperations == {"Corpus.query", "Document.query"}

\* C7: for every integer results_count outside 1..100, Corpus.query and
\* Document.query (sync and async) end with the bounds ValueError and issue no
\* remote call.
C7_CountOutsideRangeRejected ==
    (/\ Ran(QueryOperations)
     /\ last.args.results_count.some
     /\ last.args.results_count.n \notin 1..100)
    => /\ last.status = "raised"
       /\ last.error = "ValueError"
       /\ last.msg = "results_count_bounds"
       /\ last.calls = <<>>

\* C8: for every integer results_count in 1..100, Corpus.query and
\* Document.query accept it and issue the query call with that results_count.
C8_CountInRangeAccepted ==
    (/\ Ran(QueryOperations)
     /\ last.args.results_count.some
     /\ last.args.results_count.n \in 1..100)
    => /\ Len(last.calls) = 1
       /\ last.calls[1].rpc = (IF last.pre.type = "Corpus" THEN "query_corpus" ELSE "query_document")
       /\ last.calls[1].request.results_count = last.args.results_count

AllOperations ==
    UpdateOperations \cup CreateOperations \cup QueryOperations \cup {"Document.batch_update_chunks"}

\* C11: an asynchronous variant makes every remote call on the asynchronous
\* client, and issues the requests its synchronous operation issues; for
\* Document.batch_update_chunks_async this includes the fetches of the chunks,
\* and a pre-built request, for which the batch-update call is issued as the
\* synchronous operation issues it.
C11_AsyncMirrorsSync ==
    (Ran(AllOperations) /\ last.async)
    => /\ \A i \in 1..Len(last.calls) : last.calls[i].client = "async_client"
       /\ (last.name = "Document.batch_update_chunks"
              /\ last.args.chunks.shape = "BatchUpdateChunksRequest")
          => /\ Len(last.calls) = 1
             /\ last.calls[1].rpc = "batch_update_chunks"
             /\ last.error # "AttributeError"

\* to_dict of the entity, by its type
Snapshot(obj) ==
    IF obj.type = "Corpus" THEN Corpus_to_dict(obj)
    ELSE IF obj.type = "Document" THEN Document_to_dict(obj)
    ELSE Chunk_to_dict(obj).dict

\* an update_async is suspended
UpdateSuspended(rec) == rec.name \in UpdateOperations /\ rec.status = "awaiting"

\* where an update_async is suspended it has issued its one remote call, the
\* update, and before it has flattened and validated, built the mask, written
\* every field and taken the snapshot
PreparedBeforeSuspension(rec) ==
    LET flat == flatten_update_paths(rec.args.updates)
    IN  /\ rec.async
        /\ ~Unsupported(flat, SoleMutablePath(rec.pre.type))
        /\ Len(rec.calls) = 1
        /\ rec.calls[1].rpc \in {"update_corpus", "update_document", "update_chunk"}
        /\ MaskAndApplicationsFollow(flat, rec.calls[1].request.update_mask, rec.applied)
        /\ self = Written(rec.pre, flat)
        /\ rec.calls[1].request.entity = Snapshot(self)

\* C12: Corpus.update_async, Document.update_async and Chunk.update_async
\* suspend only at the remote update call: flattening, validation, the mask,
\* every field write and the snapshot are done when the call is awaited, and
\* no step taken while or after the call is awaited writes a field of the entity.
C12_SuspendsOnlyAtRemoteCall ==
    /\ [](/\ UpdateSuspended(last) => PreparedBeforeSuspension(last)
          /\ \A i \in 1..Len(pend) : UpdateSuspended(pend[i]) => PreparedBeforeSuspension(pend[i]))
    /\ [][UpdateSuspended(last) => self' = self]_vars

C12_Witness ==
    /\ Over({"Chunk.update"})
    /\ last.async
    /\ last.status = "returned"
    /\ pend = <<>>
    /\ last.pre.data.string_value = "s0"
    /\ self.data.string_value = "v2"

\* the chunk a call of _make_chunk was given, and what the call gave
MadeFrom(shape) == Over({"Document._make_chunk"}) /\ last.args.chunk.shape = shape

MadeChunk(name, s, cms) ==
    /\ last.status = "returned"
    /\ last.ret.chunk.name = name
    /\ last.ret.chunk.data.string_value = s
    /\ last.ret.chunk.custom_metadata = cms

\* C13: Document._make_chunk gives, for a wire chunk, an equal chunk; for a
\* string s, a chunk with the empty name and the payload s; for a tuple
\* (name, data), a chunk with that name and payload and no metadata; for a
\* tuple (name, data, metadata), that chunk with the metadata; for a mapping
\* whose 'data' is a string, a chunk with the mapping's fields and that string
\* as payload, the caller's mapping being left as it was.
C13_MakeChunkShapes ==
    /\ MadeFrom("glm.Chunk") => (last.status = "returned" /\ last.ret.chunk = last.args.chunk.chunk)
    /\ MadeFrom("str") => MadeChunk("", last.args.chunk.s, <<>>)
    /\ (MadeFrom("tuple") /\ Len(last.args.chunk.elems) = 2)
          => MadeChunk(last.args.chunk.elems[1], last.args.chunk.elems[2], <<>>)
    /\ (MadeFrom("tuple") /\ Len(last.args.chunk.elems) = 3)
          => MadeChunk(last.args.chunk.elems[1], last.args.chunk.elems[2], last.args.chunk.elems[3])
    /\ (/\ MadeFrom("Mapping")
        /\ "data" \in last.args.chunk.m.keys
        /\ last.args.chunk.m.dataIsStr)
          => /\ MadeChunk(IF "name" \in last.args.chunk.m.keys THEN last.args.chunk.m.name ELSE "",
                          last.args.chunk.m.s,
                          IF "custom_metadata" \in last.args.chunk.m.keys
                          THEN last.args.chunk.m.custom_metadata ELSE <<>>)
             /\ last.ret.arg = last.args.chunk

C13_Witness ==
    /\ MadeFrom("Mapping")
    /\ last.args.chunk.m.keys = {"name", "data", "custom_metadata"}
    /\ last.args.chunk.m.dataIsStr
    /\ last.ret.chunk.data.string_value = "hello"
    /\ last.ret.chunk.custom_metadata # <<>>

\* a tuple of a length other than 2 and 3
WrongLength(c) == c.shape = "tuple" /\ Len(c.elems) \notin {2, 3}

\* a value that is no wire chunk, string, tuple or mapping
WrongType(c) == c.shape \notin {"glm.Chunk", "str", "tuple", "Mapping"}

BatchCreateOf(shapes) ==
    Ran({"Document.batch_create_chunks"}) /\ last.args.chunks.shape \in shapes

\* C14: Document._make_chunk ends with a ValueError that reports the length
\* for every tuple of a length other than 2 and 3, and with a TypeError that
\* names the type for every value that is no wire chunk, string, tuple or
\* mapping; Document.batch_create_chunks (sync and async), when an element of
\* its batch is such a tuple or value, ends raised without a remote call.
C14_MakeChunkRefuses ==
    /\ (MadeFrom("tuple") /\ WrongLength(last.args.chunk))
          => /\ last.status = "raised"
             /\ last.error = "ValueError"
             /\ last.detail = [length |-> Len(last.args.chunk.elems)]
    /\ (Over({"Document._make_chunk"}) /\ WrongType(last.args.chunk))
          => /\ last.status = "raised"
             /\ last.error = "TypeError"
             /\ last.detail = [type |-> last.args.chunk.shape]
    /\ (/\ BatchCreateOf({"Mapping", "Iterable"})
        /\ \E i \in 1..Len(last.args.chunks.items) :
              \/ WrongLength(BatchElements(last.args.chunks)[i])
              \/ WrongType(BatchElements(last.args.chunks)[i]))
          => /\ last.status = "raised"
             /\ last.error \in {"ValueError", "TypeError", "KeyError"}
             /\ last.calls = <<>>

C14_Witness ==
    /\ BatchCreateOf({"Iterable"})
    /\ last.async
    /\ Len(last.args.chunks.items) = 2
    /\ last.args.chunks.items[1].shape = "str"
    /\ WrongLength(last.args.chunks.items[2])
    /\ last.error = "ValueError"
    /\ last.calls = <<>>

Normalised == last.name = "make_custom_metadata" /\ last.status = "returned"

\* C15: make_custom_metadata applied to what it returned returns it again,
\* and it returns a CustomMetadata it is given; the value ['a', 'b', 'c'] in
\* a dict is normalised to metadata that converts to a string_list_value, and
\* that wire message is normalised to metadata of the same key that holds the
\* same list of values, as the mapping {"values": ['a', 'b', 'c']}.
C15_NormalisationIdempotent ==
    /\ Normalised => make_custom_metadata(last.ret) = [error |-> None, cm |-> last.ret]
    /\ (Normalised /\ last.args.cm.rep = "CustomMetadata") => last.ret = last.args.cm
    /\ (/\ Normalised
        /\ last.args.cm.rep = "dict"
        /\ last.args.cm.value = ListV(<<"a", "b", "c">>))
          => /\ last.ret = CustomMetadata(last.args.cm.key, ListV(<<"a", "b", "c">>))
             /\ CustomMetadata_to_proto(last.ret).proto.kind = "string_list_value"
             /\ make_custom_metadata(CustomMetadata_to_proto(last.ret).proto)
                   = [error |-> None, cm |-> CustomMetadata(last.args.cm.key, MapV(<<"a", "b", "c">>))]

C15_Witness ==
    /\ Normalised
    /\ last.args.cm = MetadataDict("k", "value", ListV(<<"a", "b", "c">>))
    /\ last.ret.value.l = <<"a", "b", "c">>

Converted == last.name = "CustomMetadata._to_proto" /\ last.status \in {"returned", "raised"}

\* C16: CustomMetadata._to_proto gives a string the kind string_value; a list
\* or a mapping, which are iterables that are no string, the kind
\* string_list_value with the values of the list or of the mapping; an int or
\* a float the kind numeric_value with the value as a float; and ends with a
\* ValueError carrying the type and the value for any other value.  A result
\* has one kind.
C16_ToProtoOrder ==
    Converted
    => /\ last.args.cm.value.t = "str"
            => (last.status = "returned"
                /\ last.ret = WireMetadata(last.args.cm.key, "string_value", last.args.cm.value))
       /\ last.args.cm.value.t \in {"list", "Mapping"}
            => (last.status = "returned"
                /\ last.ret = WireMetadata(last.args.cm.key, "string_list_value",
                                           ListV(last.args.cm.value.l)))
       /\ last.args.cm.value.t \in {"int", "float"}
            => (last.status = "returned"
                /\ last.ret = WireMetadata(last.args.cm.key, "numeric_value",
                                           FloatV(last.args.cm.value.n)))
       /\ last.args.cm.value.t \notin {"str", "list", "Mapping", "int", "float"}
            => (last.status = "raised" /\ last.error = "ValueError"
                /\ last.detail = [type |-> last.args.cm.value.t, value |-> last.args.cm.value])
       /\ last.status = "returned"
            => last.ret.kind \in {"string_value", "string_list_value", "numeric_value"}

C16_Witness ==
    /\ Converted
    /\ last.args.cm.value = IntV(2)
    /\ last.ret.kind = "numeric_value"
    /\ last.ret.value.t = "float"

Resolved == last.name = "to_operator" /\ last.status \in {"returned", "raised"}

\* the spellings of the operators
Spellings ==
    {<<"unspecified", "OPERATOR_UNSPECIFIED">>, <<"<", "LESS">>, <<"<=", "LESS_EQUAL">>,
     <<"==", "EQUAL">>, <<">=", "GREATER_EQUAL">>, <<"!=", "NOT_EQUAL">>,
     <<"includes", "INCLUDES">>, <<"excludes", "EXCLUDES">>}

\* C18: to_operator returns, for each of the spellings unspecified, <, <=,
\* ==, >=, !=, includes and excludes in any letter case, the operator it
\* spells, and for each operator given as a member of Operator, that operator.
C18_SpellingsResolve ==
    /\ \A sp \in Spellings :
          (Resolved /\ last.args.x.t = "str" /\ Lower(last.args.x.s) = sp[1])
             => (last.status = "returned" /\ last.ret = sp[2])
    /\ (Resolved /\ last.args.x.t = "Operator")
          => (last.status = "returned" /\ last.ret = last.args.x.s)

\* C19 as stated: no int makes to_operator return EXCLUDES.
C19_ExcludesUnreachableByCode ==
    (Resolved /\ last.args.x.t = "int") => last.ret # "EXCLUDES"

\* C19: the table is written with the key 6 twice, first for INCLUDES and
\* then for EXCLUDES, and to_operator(6) returns EXCLUDES.
C19_SixGivesExcludes ==
    /\ \E i, j \in 1..Len(_OPERATOR) :
          /\ i < j
          /\ _OPERATOR[i] = KeyValue(IntV(6), "INCLUDES")
          /\ _OPERATOR[j] = KeyValue(IntV(6), "EXCLUDES")
    /\ (Resolved /\ last.args.x = IntV(6))
          => (last.status = "returned" /\ last.ret = "EXCLUDES")

C19_Witness == Resolved /\ last.args.x = IntV(6) /\ last.ret = "EXCLUDES"

\* a flattened update written as an update mapping: its dotted paths as keys
AsUpdates(flat) == [i \in 1..Len(flat) |-> Entry(flat[i].path, Leaf(flat[i].value))]

\* {'data': {'string_value': v}} and {'data.string_value': v}
NestedForm(v) == <<Entry(<<"data">>, Nested(<<Entry(<<"string_value">>, Leaf(v))>>))>>
FlatForm(v) == <<Entry(<<"data", "string_value">>, Leaf(v))>>

\* what Chunk.update leaves and sends for the payload v, whichever way the
\* update is written: a chunk whose metadata does not convert is left as it
\* was and nothing is sent; otherwise the chunk has the payload v, the mask is
\* the one path data.string_value, and if its snapshot can be taken one
\* update_chunk request carries that mask and that snapshot
PayloadUpdated(v) ==
    IF ConvertMetadata(last.pre.custom_metadata).error # None
    THEN self = last.pre /\ last.calls = <<>> /\ last.status = "raised"
    ELSE /\ last.flat = <<[path |-> <<"data", "string_value">>, value |-> v]>>
         /\ last.mask = <<<<"data", "string_value">>>>
         /\ self = [last.pre EXCEPT
                       !.data.string_value = v,
                       !.custom_metadata = ConvertMetadata(last.pre.custom_metadata).c_data]
         /\ IF ConvertMetadata(self.custom_metadata).error # None
            THEN last.calls = <<>> /\ last.status = "raised"
            ELSE /\ Len(last.calls) = 1
                 /\ last.calls[1].rpc = "update_chunk"
                 /\ last.calls[1].request.update_mask = <<<<"data", "string_value">>>>
                 /\ last.calls[1].request.entity.name = last.pre.name
                 /\ last.calls[1].request.entity.data.string_value = v
                 /\ last.calls[1].request.entity.custom_metadata = <<>>

\* C20: flattening the flattened form of an update mapping gives that
\* flattened form again, paths, values and order; and Chunk.update (sync and
\* async) given {'data': {'string_value': v}} or {'data.string_value': v}
\* builds the same mask, sends the same snapshot and leaves the chunk in the
\* same state.
C20_FlattenIdempotent ==
    /\ Ran(UpdateOperations)
          => flatten_update_paths(AsUpdates(flatten_update_paths(last.args.updates)))
                = flatten_update_paths(last.args.updates)
    /\ \A v \in Values :
          (Ran({"Chunk.update"}) /\ last.args.updates \in {NestedForm(v), FlatForm(v)})
             => PayloadUpdated(v)

C20_Witness ==
    /\ Over({"Chunk.update"})
    /\ last.args.updates = NestedForm("v2")
    /\ last.status = "returned"
    /\ Len(last.calls) = 1
    /\ last.calls[1].request.entity.data.string_value = "v2"

Constructed == last.name = "Chunk.__init__" /\ last.status = "returned"

\* C30: a Chunk its constructor returns has every field set: data is a
\* ChunkData with the payload given, whether as a string, a mapping with
\* 'string_value' or a ChunkData; custom_metadata is a list, empty when None
\* was given, of CustomMetadata; state is a State; create_time and
\* update_time are None or a datetime; and to_dict of it succeeds.
C30_ConstructedChunkComplete ==
    Constructed
    => /\ last.ret.unset = {}
       /\ last.ret.chunk.data = ChunkData(last.args.data.s)
       /\ ~last.args.custom_metadata.some => last.ret.chunk.custom_metadata = <<>>
       /\ \A i \in 1..Len(last.ret.chunk.custom_metadata) :
             last.ret.chunk.custom_metadata[i].rep = "CustomMetadata"
       /\ last.ret.chunk.state
             \in {"STATE_UNSPECIFIED", "STATE_PENDING_PROCESSING", "STATE_ACTIVE", "STATE_FAILED"}
       /\ last.ret.chunk.create_time \in {None, "t0", "t1"}
       /\ last.ret.chunk.update_time \in {None, "t0", "t1"}
       /\ Chunk_to_dict(last.ret.chunk).error = None

\* C21: Corpus.query and Document.query (sync and async), when they return,
\* return one (relevance score, chunk) pair for each entry of the response's
\* relevant_chunks, in the order of the response, with that entry's score and
\* the chunk built from that entry's chunk.
C21_ResultsFollowResponse ==
    (Over(QueryOperations) /\ last.status = "returned")
    => /\ Len(last.ret) = Len(last.detail.response)
       /\ \A i \in 1..Len(last.ret) :
             /\ last.ret[i].chunk_relevance_score = last.detail.response[i].chunk_relevance_score
             /\ last.ret[i].chunk.name = last.detail.response[i].chunk.name
             /\ last.ret[i].chunk.data.string_value = last.detail.response[i].chunk.data.s
             /\ last.ret[i].chunk.state
                   = (IF last.detail.response[i].chunk.state.n = 2
                      THEN "STATE_ACTIVE" ELSE "STATE_PENDING_PROCESSING")

C21_Witness ==
    /\ Over({"Document.query"})
    /\ last.async
    /\ last.status = "returned"
    /\ Len(last.ret) = 2
    /\ last.ret[1].chunk_relevance_score = 5
    /\ last.ret[1].chunk.name = "a"
    /\ last.ret[2].chunk_relevance_score = 9
    /\ last.ret[2].chunk.name = "b"

Listing == last.name \in {"Corpus.list_documents", "Document.list_chunks"}

\* C22: calling Corpus.list_documents or Document.list_chunks issues no
\* remote call; from the request of the first element on, the list call has
\* been issued once and is never issued again; the elements produced are the
\* decoded remote items, in the remote order, and all of them once the
\* sequence has ended.
C22_ListIsLazy ==
    /\ (Listing /\ last.status = "created") => (last.calls = <<>> /\ last.ret = None)
    /\ (Listing /\ last.status # "created")
          => /\ Len(last.calls) = 1
             /\ last.calls[1].rpc
                   = (IF last.pre.type = "Corpus" THEN "list_documents" ELSE "list_chunks")
             /\ last.calls[1].request.parent = last.pre.name
    /\ (Listing /\ last.status \in {"yielded", "returned"})
          => /\ Len(last.ret) <= Len(last.detail.response)
             /\ \A i \in 1..Len(last.ret) :
                   /\ last.ret[i].type = (IF last.pre.type = "Corpus" THEN "Document" ELSE "Chunk")
                   /\ last.ret[i].name
                         = ChildName(last.pre.name,
                                     IF last.pre.type = "Corpus" THEN "documents" ELSE "chunks",
                                     last.detail.response[i])
             /\ last.status = "returned" => Len(last.ret) = Len(last.detail.response)

C22_Witness ==
    /\ Listing
    /\ last.status = "returned"
    /\ last.detail.response = <<"b", "a">>
    /\ Len(last.ret) = 2
    /\ Len(last.calls) = 1

\* C23: when update (sync or async) of a Corpus, a Document or a Chunk ends
\* with the unsupported-field ValueError, the entity is as it was before the
\* call, the custom_metadata of a Chunk and the representation of its elements
\* included.
C23_RejectedUpdateWritesNothing ==
    (/\ Over(UpdateOperations)
     /\ last.status = "raised"
     /\ last.error = "ValueError"
     /\ last.msg = "unsupported_field")
    => self = last.pre

\* C24: Chunk.update({'data.string_value': v}) on any chunk, with or without
\* custom metadata, issues the remote update and leaves the chunk as it was
\* but for data.string_value, its custom_metadata still the CustomMetadata
\* values it held.
C24_PayloadUpdateKeepsMetadata ==
    \A v \in Values :
       (Ran({"Chunk.update"}) /\ last.args.updates = FlatForm(v))
       => /\ Len(last.calls) = 1
          /\ last.calls[1].rpc = "update_chunk"
          /\ self = [last.pre EXCEPT !.data.string_value = v]

\* the object a path's non-terminal segments lead to exists: a one-segment
\* path has none, and of the entities only a Chunk has the object field data
Resolves(obj, path) ==
    \/ Len(path) = 1
    \/ Len(path) = 2 /\ path[1] = "data" /\ obj.type = "Chunk"

\* obj with the attribute a holding v and everything else as it was
WithAttr(obj, a, v) ==
    IF a \in DOMAIN obj
    THEN [f \in DOMAIN obj |-> IF f = a THEN v ELSE obj[f]]
    ELSE [f \in DOMAIN obj |->
            IF f = "extra" THEN {p \in obj.extra : p[1] # a} \cup {<<a, v>>} ELSE obj[f]]

Assigned(obj, path, v) ==
    IF Len(path) = 1 THEN WithAttr(obj, path[1], v)
    ELSE [f \in DOMAIN obj |-> IF f = "data" THEN WithAttr(obj.data, path[2], v) ELSE obj[f]]

\* the entity after the first n paths of flat have been assigned in order
RECURSIVE AssignedUpTo(_, _, _)
AssignedUpTo(obj, flat, n) ==
    IF n = 0 THEN obj
    ELSE Assigned(AssignedUpTo(obj, flat, n - 1), flat[n].path, flat[n].value)

\* the paths before the first one that does not resolve
ResolvedPrefix(obj, flat) ==
    IF \A i \in 1..Len(flat) : Resolves(obj, flat[i].path) THEN Len(flat)
    ELSE (CHOOSE i \in 1..Len(flat) :
             /\ ~Resolves(obj, flat[i].path)
             /\ \A j \in 1..(i - 1) : Resolves(obj, flat[j].path)) - 1

\* C25: _apply_update assigns the value as it is to the terminal segment of
\* the object its non-terminal segments lead to and changes nothing else; a
\* path whose non-terminal segment does not resolve raises AttributeError to
\* the caller, writes nothing, and leaves the writes of the earlier paths.
C25_ApplyUpdateWritesTerminal ==
    Over({"_apply_update"})
    => LET n == ResolvedPrefix(last.pre, last.flat)
       IN  /\ self = AssignedUpTo(last.pre, last.flat, n)
           /\ (n = Len(last.flat)) => last.status = "returned"
           /\ (n < Len(last.flat)) => last.status = "raised" /\ last.error = "AttributeError"

\* a second path failed after the first was written, and the write is there
C25_Witness ==
    /\ Over({"_apply_update"})
    /\ last.status = "raised"
    /\ Len(last.flat) = 2
    /\ self.type = "Chunk"
    /\ last.flat[1].path = <<"data", "string_value">>
    /\ self.data.string_value = last.flat[1].value
    /\ self.data.string_value # last.pre.data.string_value

\* the value an update was asked to write, and the value of the sole mutable
\* field in a snapshot
AskedValue(rec) == rec.flat[Len(rec.flat)].value

SnapshotValue(rec) ==
    IF rec.pre.type = "Chunk" THEN rec.calls[1].request.entity.data.string_value
    ELSE rec.calls[1].request.entity.display_name

\* the request of an update that writes a value carries that value
CarriesOwnValue(rec) ==
    (rec.name \in UpdateOperations /\ rec.flat # <<>> /\ Len(rec.calls) = 1)
    => SnapshotValue(rec) = AskedValue(rec)

\* C26: of update_async calls that interleave on one instance, each call's
\* request carries the value that call was asked to write; the entity holds the
\* value of the call that started last, from when that call is suspended and
\* through the return of every call, in whatever order they return.
C26_InterleavedUpdatesKeepOwnValue ==
    [][/\ CarriesOwnValue(last') /\ \A i \in 1..Len(pend') : CarriesOwnValue(pend'[i])
       /\ (Len(pend') > Len(pend) /\ last'.flat # <<>>)
            => /\ last' = pend'[Len(pend')]
               /\ Snapshot(self') = last'.calls[1].request.entity
               /\ SnapshotValue(last') = AskedValue(last')
       /\ (Len(pend') < Len(pend)) => self' = self]_vars

\* two calls are suspended with different values; the first one's request has
\* its own value and the entity has the second one's
C26_Witness ==
    /\ Len(pend) = 2
    /\ pend[1].flat # <<>> /\ pend[2].flat # <<>>
    /\ AskedValue(pend[1]) = "v1" /\ AskedValue(pend[2]) = "v2"
    /\ SnapshotValue(pend[1]) = "v1"
    /\ self.type = "Corpus" /\ self.display_name = "v2"

\* the keyword arguments a wire condition is built from, for one condition
OwnArguments(c) ==
    {[path |-> "operation", value |-> EnumV(c.operation)],
     IF c.value.t = "str" THEN [path |-> "string_value", value |-> c.value]
     ELSE [path |-> "numeric_value", value |-> FloatV(c.value.n)]}

\* C27: MetadataFilter._to_proto emits one wire condition per condition, in
\* order, each built from its own condition's operation and its own value
\* only (a string as string_value, a number as a float numeric_value); it
\* raises ValueError when a value is neither a string nor a number.
C27_ConditionsCarryOwnValue ==
    Over({"MetadataFilter._to_proto"})
    => LET conds == last.args.filter.conditions
       IN  IF \E i \in 1..Len(conds) : conds[i].value.t \notin {"str", "int", "float"}
           THEN last.status = "raised" /\ last.error = "ValueError"
           ELSE /\ last.status = "returned"
                /\ Len(last.ret.conditions) = Len(conds)
                /\ \A i \in 1..Len(conds) :
                      {last.ret.conditions[i][j] : j \in 1..Len(last.ret.conditions[i])}
                         = OwnArguments(conds[i])

\* the name an element of a batch supplies for its chunk, "" when it has none
SuppliedName(c) ==
    CASE c.shape = "glm.Chunk" -> c.chunk.name
      [] c.shape = "tuple" -> c.elems[1]
      [] c.shape = "Mapping" -> IF "name" \in c.m.keys THEN c.m.name ELSE ""
      [] OTHER -> ""

\* C28: the batch-create request has one create request per element, in
\* order; each chunk is named <document name>/chunks/<n>, n the name the
\* element supplies or else its zero-based position; and when the supplied
\* names are pairwise distinct, so are the chunk names of the request.
C28_BatchNamesDistinct ==
    (BatchCreateOf({"Mapping", "Iterable"}) /\ Len(last.calls) = 1)
    => LET elems == BatchElements(last.args.chunks)
           requests == last.calls[1].request.requests
       IN  /\ Len(requests) = Len(elems)
           /\ \A i \in 1..Len(elems) :
                 requests[i].chunk.name =
                    ChildName(last.pre.name, "chunks",
                              IF SuppliedName(elems[i]) = "" THEN Str(i - 1)
                              ELSE SuppliedName(elems[i]))
           /\ (\A i, j \in 1..Len(elems) :
                  (i # j /\ SuppliedName(elems[i]) # "" /\ SuppliedName(elems[j]) # "")
                  => SuppliedName(elems[i]) # SuppliedName(elems[j]))
              => \A i, j \in 1..Len(elems) :
                    i # j => requests[i].chunk.name # requests[j].chunk.name

\* C29: for every iterable of chunk names, one that can be traversed only
\* once included, Document.batch_delete_chunks issues one batch-delete call
\* that holds one delete request per name, in input order, none dropped.
C29_BatchDeleteKeepsEveryName ==
    (Ran({"Document.batch_delete_chunks"}) /\ last.args.chunks.kind = "str")
    => /\ Len(last.calls) = 1
       /\ last.calls[1].rpc = "batch_delete_chunks"
       /\ last.calls[1].request.requests =
             [i \in 1..Len(last.args.chunks.items) |-> [name |-> last.args.chunks.items[i].name]]
====
